---- MODULE Spec2Model ----
(***************************************************************************)
(* Verification model of VESIcal's MagmaSatPlus.py: the MagmaSat model     *)
(* (dissolved volatiles, equilibrium fluid, saturation pressure, degassing *)
(* paths) driving the external MELTS equilibrium engine, and the           *)
(* MixedFluids degassing-path integrator.                                  *)
(*                                                                         *)
(* Fixed-point conventions (TLA+ has no reals):                            *)
(*   wt% values          : 1 unit = 0.0001 wt%  (Total = 100 wt%)          *)
(*   mole fractions      : 1 unit = 0.0001      (XOne  = 1.0)              *)
(*   public pressures    : whole bars                                      *)
(*   engine pressures    : whole MPa                                       *)
(*   masses              : whole grams                                     *)
(* Temperature is passed through to the engine unchanged and never decides *)
(* a branch, so it is not part of the state.                               *)
(***************************************************************************)
EXTENDS Integers, Sequences, FiniteSets, TLC

\* ------------------------------------------------------------------ bounds
\* highest pressure (MPa) at which the modelled engine may report a fluid
MaxSatMPa == 12
\* largest fluid mass (g) the modelled engine reports
MaxFluidMass == 2
\* ceiling on iterations of the loops whose exit depends on the engine alone
MaxIter == 3

\* ------------------------------------------------------- program constants
Total == 1000000
XOne == 10000
SysMass == 100
Absent == -1
SearchTopMPa == 2000
CoarseStepMPa == 100
Refine1StepMPa == 10
Refine2StepMPa == 1
GridFloor == 1
GridStep == 10

\* --------------------------------------------------------------- compositions
\* the module-level `oxides` list, with the fourteen anhydrous oxides
\* represented by three of them
oxides == {"SiO2", "MgO", "Na2O", "H2O", "CO2"}

\* floor(a * b / c), computed without exceeding 32-bit intermediates
\* (a, b, c at most about Total)
MulDiv(a, b, c) ==
    LET b1 == b \div 1000
        b0 == b % 1000
        q == (a * b1) \div c
        r == (a * b1) % c
    IN  q * 1000 + (r * 1000 + a * b0) \div c

SumOf(sample) ==
    sample["SiO2"] + sample["MgO"] + sample["Na2O"] + sample["H2O"] + sample["CO2"]

\* normalize(sample) for a dict: a NEW dict, 100.0 * v / sum(values)
normalize(sample) ==
    [k \in oxides |-> MulDiv(sample[k], Total, SumOf(sample))]

\* normalize_FixedVolatiles(sample) for a dict: a NEW dict; H2O and CO2 keep
\* their values, the other oxides are scaled to 100 - volatiles
normalize_FixedVolatiles(sample) ==
    LET vols == sample["CO2"] + sample["H2O"]
        anh == sample["SiO2"] + sample["MgO"] + sample["Na2O"]
    IN  [k \in oxides |->
            IF k \in {"H2O", "CO2"} THEN sample[k]
            ELSE MulDiv(sample[k], Total - vols, anh)]

\* caller-side sample compositions (all oxide keys present, as after
\* preprocess_sample)
Samples ==
    { [SiO2 |-> 725000, MgO |-> 200000, Na2O |-> 30000, H2O |-> 40000, CO2 |-> 5000],
      [SiO2 |-> 770000, MgO |-> 200000, Na2O |-> 30000, H2O |-> 0,     CO2 |-> 0] }

\* samples as callers hand them over: the normalized ones and an analysis
\* that does not sum to 100 wt%
RawSamples ==
    Samples \cup
    { [SiO2 |-> 500000, MgO |-> 100000, Na2O |-> 30000, H2O |-> 20000, CO2 |-> 1000] }

\* ------------------------------------------------------------ the engine
\* melts.equilibrate_tp(T, P) on the current bulk composition.  The engine
\* is a black box: its answer is any phase assemblage that respects mass
\* balance with the bulk composition.  It echoes the pressure it was handed.
FluidComps == { [H2O |-> 800000, CO2 |-> 200000, Water |-> 9071, CarbonDioxide |-> 929] }

NoFluid(b, keys) ==
    [fl_mass |-> 0, liq_mass |-> SysMass,
     liqH2O |-> b["H2O"], liqCO2 |-> b["CO2"],
     flH2O |-> IF keys THEN 0 ELSE Absent,
     flCO2 |-> IF keys THEN 0 ELSE Absent,
     Water |-> IF keys THEN 0 ELSE Absent,
     CarbonDioxide |-> IF keys THEN 0 ELSE Absent]

WithFluid(b, m, f) ==
    [fl_mass |-> m, liq_mass |-> SysMass - m,
     liqH2O |-> (b["H2O"] * SysMass - m * f["H2O"]) \div (SysMass - m),
     liqCO2 |-> (b["CO2"] * SysMass - m * f["CO2"]) \div (SysMass - m),
     flH2O |-> f["H2O"], flCO2 |-> f["CO2"],
     Water |-> f["Water"], CarbonDioxide |-> f["CarbonDioxide"]]

Feasible(b, m, f) ==
    /\ m * f["H2O"] <= b["H2O"] * SysMass
    /\ m * f["CO2"] <= b["CO2"] * SysMass

\* zeroKeys: whether the composition the engine reports for an absent fluid
\* carries zero-valued H2O/CO2 keys (TRUE) or no keys at all (FALSE)
Equilibrate(b, P, zeroKeys) ==
    { NoFluid(b, zeroKeys) }
    \cup
    IF P <= MaxSatMPa
    THEN { WithFluid(b, mf[1], mf[2]) :
             mf \in { x \in (1..MaxFluidMass) \X FluidComps : Feasible(b, x[1], x[2]) } }
    ELSE {}

\* 100 * fl_mass / (fl_mass + liq_mass)
FluidWtPer(x) == (100 * x.fl_mass) \div (x.fl_mass + x.liq_mass)

\* ------------------------------------------------------------ numpy helpers
\* np.arange(start, stop, step) for step > 0
arange(start, stop, step) ==
    LET n == IF stop <= start THEN 0 ELSE (stop - start + step - 1) \div step
    IN  [i \in 1..n |-> start + (i - 1) * step]

\* np.sort(a): ascending order, the grid as np.arange leaves it
SortAscending(a) ==
    [i \in 1..Len(a) |->
        CHOOSE v \in {a[j] : j \in 1..Len(a)} :
            Cardinality({j \in 1..Len(a) : a[j] < v}) = i - 1]

\* -np.sort(-a): the elements of a (pairwise distinct) in descending order
SortDescending(a) ==
    [i \in 1..Len(a) |->
        CHOOSE v \in {a[j] : j \in 1..Len(a)} :
            Cardinality({j \in 1..Len(a) : a[j] > v}) = i - 1]

\* P_array of calculate_degassing_paths: closed (no init_vapor) and open
\* use arange(1.0, SatP+10.0, 10); closed with init_vapor arange(1.0, SatP, 10)
GridTop(SatP, withInitVapor) == IF withInitVapor THEN SatP ELSE SatP + GridStep

PArray(SatP, withInitVapor) ==
    SortDescending(arange(GridFloor, GridTop(SatP, withInitVapor), GridStep))

\* pd.DataFrame(list(zip(...))): zip stops at the shortest column
Min(S) == CHOOSE x \in S : \A y \in S : x <= y

Zip(c) ==
    LET n == Min({Len(c.pressure), Len(c.H2Oliq), Len(c.CO2liq),
                  Len(c.H2Ofl), Len(c.CO2fl), Len(c.fluid_wtper)})
    IN  [i \in 1..n |->
            [pressure |-> c.pressure[i], H2Oliq |-> c.H2Oliq[i],
             CO2liq |-> c.CO2liq[i], H2Ofl |-> c.H2Ofl[i],
             CO2fl |-> c.CO2fl[i], fluid_wtper |-> c.fluid_wtper[i]]]

\* `try: x.append(d[k]) except: x.append(0)`
OrZero(v) == IF v = Absent THEN 0 ELSE v

\* one pass of the row loop body: the six appends (fluid_wtper is appended
\* at the top and again at the bottom of the body)
AppendRow(c, p, x) ==
    [pressure    |-> Append(c.pressure, p),
     H2Oliq      |-> Append(c.H2Oliq, OrZero(x.liqH2O)),
     CO2liq      |-> Append(c.CO2liq, OrZero(x.liqCO2)),
     H2Ofl       |-> Append(c.H2Ofl, OrZero(x.flH2O)),
     CO2fl       |-> Append(c.CO2fl, OrZero(x.flCO2)),
     fluid_wtper |-> Append(Append(c.fluid_wtper, FluidWtPer(x)), FluidWtPer(x))]

\* the open-system body appends fluid_wtper once
AppendRowOpen(c, p, x) ==
    [AppendRow(c, p, x) EXCEPT !.fluid_wtper = Append(c.fluid_wtper, FluidWtPer(x))]

EmptyCols ==
    [pressure |-> <<>>, H2Oliq |-> <<>>, CO2liq |-> <<>>,
     H2Ofl |-> <<>>, CO2fl |-> <<>>, fluid_wtper |-> <<>>]

\* ---------------------------------------------------------------- state
VARIABLES
    pc,             \* control point of the public operation in progress
    op,             \* the call in progress: name and arguments as passed
    caller_sample,  \* contents of the dict object the caller passed
    sample_local,   \* contents of the dict made by normalize(sample)
    sample_bound,   \* which object the name `sample` denotes
    bulk,           \* the engine's bulk composition
    lastEq,         \* last equilibrate_tp call: pressure handed / public bars
    pressureMPa, fluid_mass, xmlout,   \* locals of the saturation search
    probes,         \* equilibrations the saturation search in progress has asked for
    data,           \* verbose result of calculate_saturation_pressure
    P_array, output, idx, cols,        \* locals of calculate_degassing_paths
    fl_wtper, iters,
    result,         \* what the operation handed back to its caller
    engine_keys,    \* how the engine reports the composition of an absent phase
    H2O_val, CO2_val, XH2O_fluid, stage,   \* locals of calculate_dissolved_volatiles
    wtptoxides, wtm, Xv,                   \* locals of MixedFluids.calculate_degassing_paths
    satP,           \* saturation pressure a law computed for the call in progress
    solver,         \* what the last scipy root-find handed back
    solved,         \* what the saturation-pressure root-find evaluated the forward law on
    sample_keys,    \* oxide keys of the dict Calculate.__init__ holds as self.sample
    evaluated,      \* single-species law evaluations made by the call in progress
    printed,        \* messages the call in progress wrote with print()
    trace,          \* steps Calculate.__init__ has performed, in order
    registry,       \* attributes of the default_models instances
    engine_use      \* set_bulk_composition / equilibrate_tp calls of the operation so far

vars == <<pc, op, caller_sample, sample_local, sample_bound, bulk, lastEq,
          pressureMPa, fluid_mass, xmlout, data, P_array, output, idx, cols,
          fl_wtper, iters, result, engine_keys,
          H2O_val, CO2_val, XH2O_fluid, stage, wtptoxides, wtm, Xv,
          satP, solver, solved, sample_keys, evaluated, printed, trace, registry,
          engine_use, probes>>

dgVars == <<sample_local, sample_bound, pressureMPa, fluid_mass, xmlout, data,
            P_array, output, cols, fl_wtper>>
dvVars == <<H2O_val, CO2_val, XH2O_fluid, stage>>
mxVars == <<wtptoxides, wtm, Xv>>
mlVars == <<satP, solver, solved, sample_keys, evaluated, printed, trace, registry>>

NoComp == [k \in oxides |-> 0]
NoOp == [name |-> "none", sample |-> NoComp, system |-> "none",
         init_vapor |-> Absent, verbose |-> FALSE, pressure |-> 0,
         X_fluid |-> 0, H2O_guess |-> 0, mode |-> "wtper",
         pressures |-> <<>>, fractionate_vapor |-> 0,
         law |-> "none", model |-> "none", n_species |-> 0,
         X_len |-> 0, X_type |-> "none", entry |-> "none",
         arg_type |-> "none", parameters |-> <<>>, X_pair |-> <<>>,
         variant |-> "none"]
NoXml == NoFluid(NoComp, FALSE)
NoData == [SaturationP_bars |-> 0, FluidMass_grams |-> 0,
           FluidProportion_wtper |-> 0, H2Ofluid_wtper |-> 0, CO2fluid_wtper |-> 0]
NoEq == [handed |-> 0, bars |-> 0]
NoResult == [status |-> "none", value |-> 0]
NoSolver == [called |-> FALSE, converged |-> FALSE, root |-> 0]
NoSolved == [X_fluid |-> 0, sample |-> NoComp]
\* an attribute no method has assigned yet
Unset == [k \in oxides |-> Absent]
\* instance attributes a method assigns outside __init__, per registry entry
RegistryInit == [MagmaSat |-> [bulk_comp_orig |-> Unset]]

\* the engine calls of the operation in progress: "set" after
\* melts.set_bulk_composition, "equilibrated" after a melts.equilibrate_tp
\* call that followed one, "stale" once equilibrate_tp was called with no
\* set_bulk_composition since the previous equilibrate_tp (or since the
\* operation began)
AfterSet(u) == IF u = "stale" THEN "stale" ELSE "set"
AfterEq(u) == IF u = "set" THEN "equilibrated" ELSE "stale"

\* the dict the name `sample` currently denotes
Sample == IF sample_bound = "caller" THEN caller_sample ELSE sample_local

\* locals as they are when no operation is running
LocalsReset ==
    /\ sample_local' = NoComp
    /\ sample_bound' = "caller"
    /\ pressureMPa' = 0
    /\ fluid_mass' = 0
    /\ xmlout' = NoXml
    /\ data' = NoData
    /\ P_array' = <<>>
    /\ output' = <<>>
    /\ idx' = 0
    /\ cols' = EmptyCols
    /\ fl_wtper' = 0
    /\ iters' = 0
    /\ H2O_val' = 0
    /\ CO2_val' = 0
    /\ XH2O_fluid' = 0
    /\ stage' = 0
    /\ wtptoxides' = NoComp
    /\ wtm' = <<>>
    /\ Xv' = <<>>

MlLocalsReset ==
    /\ satP' = 0
    /\ solver' = NoSolver
    /\ solved' = NoSolved
    /\ sample_keys' = oxides
    /\ evaluated' = 0
    /\ printed' = <<>>
    /\ trace' = <<>>

Init ==
    /\ pc = "idle"
    /\ op = NoOp
    /\ caller_sample = NoComp
    /\ sample_local = NoComp
    /\ sample_bound = "caller"
    /\ bulk = NoComp
    /\ lastEq = NoEq
    /\ pressureMPa = 0
    /\ fluid_mass = 0
    /\ xmlout = NoXml
    /\ data = NoData
    /\ P_array = <<>>
    /\ output = <<>>
    /\ idx = 0
    /\ cols = EmptyCols
    /\ fl_wtper = 0
    /\ iters = 0
    /\ result = NoResult
    /\ engine_keys \in BOOLEAN
    /\ H2O_val = 0
    /\ CO2_val = 0
    /\ XH2O_fluid = 0
    /\ stage = 0
    /\ wtptoxides = NoComp
    /\ wtm = <<>>
    /\ Xv = <<>>
    /\ satP = 0
    /\ solver = NoSolver
    /\ solved = NoSolved
    /\ sample_keys = oxides
    /\ evaluated = 0
    /\ printed = <<>>
    /\ trace = <<>>
    /\ registry = RegistryInit
    /\ engine_use = "none"
    /\ probes = {}

\* ------------------------------------- MagmaSat.calculate_saturation_pressure
\* lines 3649-3657: bulk_comp copied from the sample and set on the engine,
\* search starts at 2000 MPa
SatEnter(s) ==
    /\ bulk' = s
    /\ pressureMPa' = SearchTopMPa
    /\ fluid_mass' = 0
    /\ probes' = {}
    /\ pc' = "sat_coarse"

SatCall ==
    /\ pc = "idle"
    /\ UNCHANGED mlVars
    /\ engine_use' = AfterSet(engine_use)
    /\ \E s \in Samples, v \in BOOLEAN :
         /\ op' = [NoOp EXCEPT !.name = "saturation_pressure", !.sample = s, !.verbose = v]
         /\ caller_sample' = s
         /\ SatEnter(s)
    /\ result' = NoResult
    /\ UNCHANGED <<sample_local, sample_bound, lastEq, xmlout, data, P_array,
                   output, idx, cols, fl_wtper, iters>>
    /\ UNCHANGED <<engine_keys, dvVars, mxVars>>

\* melts.equilibrate_tp(temperature, pressureMPa, initialize=True) of lines
\* 3662, 3678 and 3695: the pressure asked for and the engine's answer
Probed(step, x) == probes' = probes \cup { [P |-> pressureMPa - step, x |-> x] }

\* ExcelFile.calculate_saturation_pressure, lines 793-898, for a file of one
\* row: the three searches run on the row's composition and the row gets the
\* pressure, fluid mass and fluid composition of the last equilibration
ExcelSatCall ==
    /\ pc = "idle"
    /\ UNCHANGED mlVars
    /\ engine_use' = AfterSet(engine_use)
    /\ \E s \in Samples :
         /\ op' = [NoOp EXCEPT !.name = "excel_saturation_pressure", !.sample = s,
                               !.verbose = TRUE]
         /\ caller_sample' = s
         /\ SatEnter(s)
    /\ result' = NoResult
    /\ UNCHANGED <<sample_local, sample_bound, lastEq, xmlout, data, P_array,
                   output, idx, cols, fl_wtper, iters>>
    /\ UNCHANGED <<engine_keys, dvVars, mxVars>>

\* one pass of a search loop body: lower the pressure, equilibrate, read the
\* fluid mass; the engine echoes the pressure
SearchPass(step, x) ==
    /\ pressureMPa' = pressureMPa - step
    /\ lastEq' = [handed |-> pressureMPa - step, bars |-> (pressureMPa - step) * 10]
    /\ fluid_mass' = x.fl_mass
    /\ xmlout' = x

\* the loop is left on fluid_mass > 0 or on `if pressureMPa <= 0: break`
SearchExits(step, x) == x.fl_mass > 0 \/ pressureMPa - step <= 0

\* coarse search, and on exit lines 3668-3673
SatCoarse ==
    /\ pc = "sat_coarse"
    /\ UNCHANGED mlVars
    /\ \E x \in Equilibrate(bulk, pressureMPa - CoarseStepMPa, engine_keys) :
         /\ Probed(CoarseStepMPa, x)
         /\ IF SearchExits(CoarseStepMPa, x)
            THEN /\ lastEq' = [handed |-> pressureMPa - CoarseStepMPa,
                               bars |-> (pressureMPa - CoarseStepMPa) * 10]
                 /\ xmlout' = x
                 /\ pressureMPa' = (pressureMPa - CoarseStepMPa) + CoarseStepMPa
                 /\ fluid_mass' = 0
                 /\ engine_use' = AfterSet(AfterEq(engine_use))
                 /\ pc' = "sat_ref1"
            ELSE /\ SearchPass(CoarseStepMPa, x)
                 /\ engine_use' = AfterEq(engine_use)
                 /\ pc' = "sat_coarse"
    /\ UNCHANGED <<op, caller_sample, sample_local, sample_bound, bulk, data,
                   P_array, output, idx, cols, fl_wtper, iters, result>>
    /\ UNCHANGED <<engine_keys, dvVars, mxVars>>

\* refined search 1, and on exit lines 3684-3690
SatRefine1 ==
    /\ pc = "sat_ref1"
    /\ UNCHANGED mlVars
    /\ \E x \in Equilibrate(bulk, pressureMPa - Refine1StepMPa, engine_keys) :
         /\ Probed(Refine1StepMPa, x)
         /\ IF SearchExits(Refine1StepMPa, x)
            THEN /\ lastEq' = [handed |-> pressureMPa - Refine1StepMPa,
                               bars |-> (pressureMPa - Refine1StepMPa) * 10]
                 /\ xmlout' = x
                 /\ pressureMPa' = (pressureMPa - Refine1StepMPa) + Refine1StepMPa
                 /\ fluid_mass' = 0
                 /\ engine_use' = AfterSet(AfterEq(engine_use))
                 /\ pc' = "sat_ref2"
            ELSE /\ SearchPass(Refine1StepMPa, x)
                 /\ engine_use' = AfterEq(engine_use)
                 /\ pc' = "sat_ref1"
    /\ UNCHANGED <<op, caller_sample, sample_local, sample_bound, bulk, data,
                   P_array, output, idx, cols, fl_wtper, iters, result>>
    /\ UNCHANGED <<engine_keys, dvVars, mxVars>>

\* refined search 2; on exit control reaches line 3701
SatRefine2 ==
    /\ pc = "sat_ref2"
    /\ UNCHANGED mlVars
    /\ engine_use' = AfterEq(engine_use)
    /\ \E x \in Equilibrate(bulk, pressureMPa - Refine2StepMPa, engine_keys) :
         /\ Probed(Refine2StepMPa, x)
         /\ SearchPass(Refine2StepMPa, x)
         /\ pc' = IF SearchExits(Refine2StepMPa, x) THEN "sat_finish" ELSE "sat_ref2"
    /\ UNCHANGED <<op, caller_sample, sample_local, sample_bound, bulk, data,
                   P_array, output, idx, cols, fl_wtper, iters, result>>
    /\ UNCHANGED <<engine_keys, dvVars, mxVars>>

\* lines 3701-3706: the values read from the last equilibration
SatDataMPa ==
    [SaturationP_bars |-> pressureMPa,
     FluidMass_grams |-> fluid_mass,
     FluidProportion_wtper |-> (100 * fluid_mass) \div (fluid_mass + xmlout.liq_mass),
     H2Ofluid_wtper |-> xmlout.flH2O,
     CO2fluid_wtper |-> xmlout.flCO2]

SatData ==
    [SaturationP_bars |-> pressureMPa * 10,
     FluidMass_grams |-> fluid_mass,
     FluidProportion_wtper |-> (100 * fluid_mass) \div (fluid_mass + xmlout.liq_mass),
     H2Ofluid_wtper |-> xmlout.flH2O,
     CO2fluid_wtper |-> xmlout.flCO2]

\* flcomp["H2O"] / flcomp["CO2"] raise KeyError when the engine's fluid
\* composition has no such key
SatKeyError == xmlout.flH2O = Absent \/ xmlout.flCO2 = Absent

\* lines 3701-3714; when called from calculate_degassing_paths (line 3844)
\* the verbose dict becomes `data` there
SatFinish ==
    /\ pc = "sat_finish"
    /\ UNCHANGED mlVars
    /\ IF SatKeyError
       THEN /\ result' = [status |-> "KeyError", value |-> 0]
            /\ pc' = "done"
            /\ UNCHANGED <<bulk, data, engine_use>>
       ELSE /\ bulk' = caller_sample
            /\ engine_use' = AfterSet(engine_use)
            /\ IF op.name = "degassing_paths"
               THEN /\ data' = SatData
                    /\ pc' = "dg_grid"
                    /\ UNCHANGED result
               ELSE /\ result' = [status |-> "ok",
                                  value |-> IF op.verbose THEN SatData
                                            ELSE pressureMPa * 10]
                    /\ pc' = "done"
                    /\ UNCHANGED data
    /\ UNCHANGED <<op, caller_sample, sample_local, sample_bound, lastEq,
                   pressureMPa, fluid_mass, xmlout, P_array, output, idx, cols,
                   fl_wtper, iters>>
    /\ UNCHANGED <<engine_keys, dvVars, mxVars>>
    /\ UNCHANGED probes

\* the caller takes the result; locals go out of scope, the engine and the
\* caller's dict live on
Return ==
    /\ pc = "done"
    /\ pc' = "idle"
    /\ op' = NoOp
    /\ LocalsReset
    /\ MlLocalsReset
    /\ caller_sample' = NoComp
    /\ lastEq' = NoEq
    /\ result' = NoResult
    /\ engine_use' = "none"
    /\ probes' = {}
    /\ UNCHANGED <<bulk, engine_keys, registry>>

\* ------------------------------------------ MagmaSat.calculate_degassing_paths
Systems == {"closed", "open"}
\* init_vapor: Absent stands for the default 'None', otherwise wt%
InitVapors == {Absent, 1}

\* sample["H2O"] = h; sample["CO2"] = c  (in place, on the dict `sample` denotes)
AssignVolatiles(h, c) == [Sample EXCEPT !["H2O"] = h, !["CO2"] = c]

\* lines 3833-3844: bulk_comp set on the engine, then the saturation search
DegasCall ==
    /\ pc = "idle"
    /\ UNCHANGED mlVars
    /\ engine_use' = AfterSet(engine_use)
    /\ \E s \in Samples, sys \in Systems, iv \in InitVapors :
         /\ sys = "open" => iv = Absent
         /\ op' = [NoOp EXCEPT !.name = "degassing_paths", !.sample = s,
                               !.system = sys, !.init_vapor = iv]
         /\ caller_sample' = s
         /\ SatEnter(s)
    /\ result' = NoResult
    /\ UNCHANGED <<sample_local, sample_bound, lastEq, xmlout, data, P_array,
                   output, idx, cols, fl_wtper, iters>>
    /\ UNCHANGED <<engine_keys, dvVars, mxVars>>

\* control point of the array call equilibrate_tp(temperature, P_array)
RampPc(arr) == IF Len(arr) = 0 THEN "dg_rows" ELSE "dg_ramp"

\* lines 3845-3851, 3904-3906, 3974-3982: SatP_MPa = data["SaturationP_bars"]
\* and the pressure grid built from it
DegasGrid ==
    /\ pc = "dg_grid"
    /\ UNCHANGED mlVars
    /\ engine_use' = engine_use
    /\ LET SatP_MPa == data.SaturationP_bars
           withIV == op.system = "closed" /\ op.init_vapor # Absent
           arr == PArray(SatP_MPa, withIV)
       IN  /\ P_array' = arr
           /\ fl_wtper' = IF withIV THEN data.FluidProportion_wtper ELSE fl_wtper
           /\ pc' = IF op.system = "open" THEN "dg_open"
                    ELSE IF withIV THEN "dg_enrich"
                    ELSE RampPc(arr)
    /\ idx' = 1
    /\ UNCHANGED <<op, caller_sample, sample_local, sample_bound, bulk, lastEq,
                   pressureMPa, fluid_mass, xmlout, data, output, cols, iters,
                   result>>
    /\ UNCHANGED <<engine_keys, dvVars, mxVars>>
    /\ UNCHANGED probes

\* lines 3908-3918: one pass of the enrichment loop
Enrich ==
    /\ pc = "dg_enrich"
    /\ UNCHANGED mlVars
    /\ fl_wtper <= op.init_vapor
    /\ iters < MaxIter
    /\ \E x \in Equilibrate(bulk, data.SaturationP_bars, engine_keys) :
         /\ lastEq' = [handed |-> data.SaturationP_bars, bars |-> data.SaturationP_bars]
         /\ IF x.flH2O = Absent \/ x.flCO2 = Absent
            THEN /\ fl_wtper' = FluidWtPer(x)
                 /\ result' = [status |-> "KeyError", value |-> 0]
                 /\ pc' = "done"
                 /\ engine_use' = AfterEq(engine_use)
                 /\ UNCHANGED <<caller_sample, sample_local, sample_bound, bulk>>
            ELSE LET enriched ==
                        AssignVolatiles(Sample["H2O"] + (x.flH2O * 5) \div 10000,
                                        Sample["CO2"] + (x.flCO2 * 5) \div 10000)
                 IN  /\ fl_wtper' = FluidWtPer(x)
                     /\ caller_sample' = IF sample_bound = "caller" THEN enriched
                                         ELSE caller_sample
                     /\ sample_local' = normalize(enriched)
                     /\ sample_bound' = "local"
                     /\ bulk' = normalize(enriched)
                     /\ engine_use' = AfterSet(AfterEq(engine_use))
                     /\ pc' = "dg_enrich"
                     /\ UNCHANGED result
    /\ iters' = iters + 1
    /\ UNCHANGED <<op, pressureMPa, fluid_mass, xmlout, data, P_array, output,
                   idx, cols>>
    /\ UNCHANGED <<engine_keys, dvVars, mxVars>>
    /\ UNCHANGED probes

\* the loop condition fails: line 3920 starts the array call
EnrichExit ==
    /\ pc = "dg_enrich"
    /\ UNCHANGED mlVars
    /\ engine_use' = engine_use
    /\ ~(fl_wtper <= op.init_vapor)
    /\ pc' = RampPc(P_array)
    /\ UNCHANGED <<op, caller_sample, sample_local, sample_bound, bulk, lastEq,
                   pressureMPa, fluid_mass, xmlout, data, P_array, output, idx,
                   cols, fl_wtper, iters, result>>
    /\ UNCHANGED <<engine_keys, dvVars, mxVars>>
    /\ UNCHANGED probes

\* lines 3851 and 3920: equilibrate_tp(temperature, P_array), one pressure of
\* the array at a time
RampEquilibrate ==
    /\ pc = "dg_ramp"
    /\ UNCHANGED mlVars
    /\ engine_use' = IF idx = 1 THEN AfterEq(engine_use) ELSE engine_use
    /\ \E x \in Equilibrate(bulk, P_array[idx], engine_keys) :
         output' = Append(output, [p |-> P_array[idx], xml |-> x])
    /\ lastEq' = [handed |-> P_array[idx], bars |-> P_array[idx]]
    /\ UNCHANGED bulk
    /\ idx' = IF idx = Len(P_array) THEN 1 ELSE idx + 1
    /\ pc' = IF idx = Len(P_array) THEN "dg_rows" ELSE "dg_ramp"
    /\ UNCHANGED <<op, caller_sample, sample_local, sample_bound, pressureMPa,
                   fluid_mass, xmlout, data, P_array, cols, fl_wtper, iters,
                   result>>
    /\ UNCHANGED <<engine_keys, dvVars, mxVars>>
    /\ UNCHANGED probes

\* lines 3859-3894 and 3928-3963: one pass of the row loop
RampRow ==
    /\ pc = "dg_rows"
    /\ UNCHANGED mlVars
    /\ engine_use' = engine_use
    /\ idx <= Len(output)
    /\ LET p == output[idx].p
           x == output[idx].xml
           written == AssignVolatiles(OrZero(x.liqH2O), OrZero(x.liqCO2))
       IN  /\ cols' = AppendRow(cols, p, x)
           /\ caller_sample' = IF sample_bound = "caller" THEN written ELSE caller_sample
           /\ sample_local' = IF sample_bound = "local" THEN written ELSE sample_local
    /\ idx' = idx + 1
    /\ UNCHANGED <<pc, op, sample_bound, bulk, lastEq, pressureMPa, fluid_mass,
                   xmlout, data, P_array, output, fl_wtper, iters, result>>
    /\ UNCHANGED <<engine_keys, dvVars, mxVars>>
    /\ UNCHANGED probes

\* lines 3896-3901 and 3965-3971: sample = bulk_comp_orig, engine reset, table
RampFinish ==
    /\ pc = "dg_rows"
    /\ UNCHANGED mlVars
    /\ engine_use' = AfterSet(engine_use)
    /\ idx > Len(output)
    /\ sample_bound' = "caller"
    /\ bulk' = caller_sample
    /\ result' = [status |-> "ok", value |-> Zip(cols)]
    /\ pc' = "done"
    /\ UNCHANGED <<op, caller_sample, sample_local, lastEq, pressureMPa,
                   fluid_mass, xmlout, data, P_array, output, idx, cols,
                   fl_wtper, iters>>
    /\ UNCHANGED <<engine_keys, dvVars, mxVars>>
    /\ UNCHANGED probes

\* lines 3983-4023: one pass of the open-system loop
OpenStep ==
    /\ pc = "dg_open"
    /\ UNCHANGED mlVars
    /\ idx <= Len(P_array)
    /\ \E x \in Equilibrate(bulk, P_array[idx], engine_keys) :
         IF x.fl_mass > 0
         THEN LET written == AssignVolatiles(OrZero(x.liqH2O), OrZero(x.liqCO2))
              IN  /\ cols' = AppendRowOpen(cols, P_array[idx], x)
                  /\ caller_sample' = IF sample_bound = "caller" THEN written
                                      ELSE caller_sample
                  /\ sample_local' = normalize(written)
                  /\ sample_bound' = "local"
                  /\ bulk' = normalize(written)
                  /\ engine_use' = AfterSet(AfterEq(engine_use))
         ELSE /\ engine_use' = AfterEq(engine_use)
              /\ UNCHANGED <<cols, caller_sample, sample_local, sample_bound, bulk>>
    /\ lastEq' = [handed |-> P_array[idx], bars |-> P_array[idx]]
    /\ idx' = idx + 1
    /\ UNCHANGED <<pc, op, pressureMPa, fluid_mass, xmlout, data, P_array,
                   output, fl_wtper, iters, result>>
    /\ UNCHANGED <<engine_keys, dvVars, mxVars>>
    /\ UNCHANGED probes

\* lines 4025-4030
OpenFinish ==
    /\ pc = "dg_open"
    /\ UNCHANGED mlVars
    /\ engine_use' = AfterSet(engine_use)
    /\ idx > Len(P_array)
    /\ sample_bound' = "caller"
    /\ bulk' = caller_sample
    /\ result' = [status |-> "ok", value |-> Zip(cols)]
    /\ pc' = "done"
    /\ UNCHANGED <<op, caller_sample, sample_local, lastEq, pressureMPa,
                   fluid_mass, xmlout, data, P_array, output, idx, cols,
                   fl_wtper, iters>>
    /\ UNCHANGED <<engine_keys, dvVars, mxVars>>
    /\ UNCHANGED probes

\* ------------------------------------- MagmaSat.calculate_dissolved_volatiles
\* public pressures offered by the caller (bars)
Pressures == {100, 1000}
\* X_fluid values offered by the caller (units of 0.0001)
XFluids == {-1, 0, 1, 5, 10, 5000, 9990, 9995, 9999, 10000, 10001}

\* lines 3442-3445 (and 599-602): `X_fluid < 0.001 or X_fluid > 0.999`
XFluidLowCode == 10
XFluidHighCode == 9990
XFluidRejected(X) ==
    X # 0 /\ X # XOne /\ (X < XFluidLowCode \/ X > XFluidHighCode)

\* what the engine may report as fluid 'Water' mole fraction: values around
\* the requested one; a bulk without H2O gives no Water in the fluid, a bulk
\* without CO2 a pure-H2O fluid
XOffsets == {-1500, -150, -15, -2, 0, 2, 15, 150, 1500}
XGrid(b, X) ==
    IF b["H2O"] = 0 THEN {0}
    ELSE IF b["CO2"] = 0 THEN {XOne}
    ELSE { v \in { X + d : d \in XOffsets } : 0 <= v /\ v <= XOne }

\* bulk_comp with bulk_comp["H2O"] = H2O, bulk_comp["CO2"] = CO2
BulkWith(smp, H2O, CO2) == [smp EXCEPT !["H2O"] = H2O, !["CO2"] = CO2]

\* accepted call: lines 3439-3449
DvEnter(s, P, X, v, name) ==
    /\ op' = [NoOp EXCEPT !.name = name, !.sample = s, !.pressure = P,
                          !.X_fluid = X, !.verbose = v]
    /\ caller_sample' = s
    /\ IF XFluidRejected(X)
       THEN /\ result' = [status |-> "InputError", value |-> 0]
            /\ pc' = "done"
            /\ UNCHANGED <<pressureMPa, H2O_val, CO2_val, fluid_mass>>
       ELSE /\ result' = NoResult
            /\ pressureMPa' = P \div 10
            /\ H2O_val' = 0
            /\ CO2_val' = 0
            /\ fluid_mass' = 0
            /\ pc' = "dv_init"
    /\ UNCHANGED <<sample_local, sample_bound, bulk, lastEq, xmlout, data,
                   P_array, output, idx, cols, fl_wtper, iters, engine_keys,
                   XH2O_fluid, stage, mxVars>>

DissolvedCall ==
    /\ pc = "idle"
    /\ UNCHANGED mlVars
    /\ engine_use' = engine_use
    /\ \E s \in Samples, P \in Pressures, X \in XFluids, v \in BOOLEAN :
         DvEnter(s, P, X, v, "dissolved_volatiles")
    /\ UNCHANGED probes

\* ExcelFile.calculate_dissolved_volatiles, lines 594-628, for a file of one
\* row: the same range test, then MagmaSat().calculate_dissolved_volatiles
\* with verbose=True
ExcelDissolvedCall ==
    /\ pc = "idle"
    /\ UNCHANGED mlVars
    /\ engine_use' = engine_use
    /\ \E s \in Samples, P \in Pressures, X \in XFluids :
         DvEnter(s, P, X, TRUE, "excel_dissolved_volatiles")
    /\ UNCHANGED probes

\* lines 3450-3474: one pass of `while fluid_mass <= 0` (get_fluid_mass sets
\* the bulk composition and equilibrates); when fluid appears the bulk is set
\* again and equilibrated for the first fluid composition
DvInit ==
    /\ pc = "dv_init"
    /\ UNCHANGED mlVars
    /\ engine_use' = AfterEq(AfterSet(engine_use))
    /\ iters < MaxIter
    /\ LET X == op.X_fluid
           newH == IF X = 0 THEN H2O_val ELSE H2O_val + 1000
           newC == IF X = 0 THEN CO2_val + 1000
                   ELSE (newH * XOne) \div X - newH
           b == BulkWith(op.sample, newH, newC)
       IN  /\ H2O_val' = newH
           /\ CO2_val' = newC
           /\ bulk' = b
           /\ lastEq' = [handed |-> pressureMPa, bars |-> op.pressure]
           /\ \E fm \in {0, 1} :
                /\ fluid_mass' = fm
                /\ IF fm > 0
                   THEN /\ \E x \in XGrid(b, X) : XH2O_fluid' = x
                        /\ stage' = 1
                        /\ pc' = "dv_loop"
                   ELSE /\ UNCHANGED <<XH2O_fluid, stage>>
                        /\ pc' = "dv_init"
    /\ iters' = iters + 1
    /\ UNCHANGED <<op, caller_sample, sample_local, sample_bound, pressureMPa,
                   xmlout, data, P_array, output, idx, cols, fl_wtper, result,
                   engine_keys, mxVars>>
    /\ UNCHANGED probes

\* the eight loops of lines 3476-3510, in order: odd stages are the
\* 'too low' loops (add H2O), even stages the 'too high' loops (add CO2)
LoopTolerance(k) == IF k <= 2 THEN 1000 ELSE IF k <= 4 THEN 100 ELSE IF k <= 6 THEN 10 ELSE 1
LoopIncrement(k) ==
    CASE k = 1 -> 2000 [] k = 2 -> 1000 [] k = 3 -> 500 [] k = 4 -> 100
      [] k = 5 -> 50   [] k = 6 -> 10   [] k = 7 -> 10  [] k = 8 -> 1
LoopCondition(k, XH2O, X) ==
    IF k % 2 = 1 THEN XH2O < X - LoopTolerance(k)
    ELSE XH2O > X + LoopTolerance(k)

\* the loop control reaches next from loop k on: 9 when every remaining
\* condition is false
NextLoop(k, XH2O, X) ==
    IF \E j \in k..8 : LoopCondition(j, XH2O, X)
    THEN CHOOSE j \in k..8 :
            /\ LoopCondition(j, XH2O, X)
            /\ \A i \in k..(j - 1) : ~LoopCondition(i, XH2O, X)
    ELSE 9

\* one pass of the loop body control is in (get_XH2O_fluid sets the bulk
\* composition and equilibrates)
DvRefine ==
    /\ pc = "dv_loop"
    /\ UNCHANGED mlVars
    /\ engine_use' = AfterEq(AfterSet(engine_use))
    /\ iters < MaxIter
    /\ LET k == NextLoop(stage, XH2O_fluid, op.X_fluid)
           newH == IF k % 2 = 1 THEN H2O_val + LoopIncrement(k) ELSE H2O_val
           newC == IF k % 2 = 0 THEN CO2_val + LoopIncrement(k) ELSE CO2_val
           b == BulkWith(op.sample, newH, newC)
       IN  /\ k <= 8
           /\ stage' = k
           /\ H2O_val' = newH
           /\ CO2_val' = newC
           /\ bulk' = b
           /\ \E x \in XGrid(b, op.X_fluid) : XH2O_fluid' = x
    /\ lastEq' = [handed |-> pressureMPa, bars |-> op.pressure]
    /\ iters' = iters + 1
    /\ UNCHANGED <<pc, op, caller_sample, sample_local, sample_bound,
                   pressureMPa, fluid_mass, xmlout, data, P_array, output, idx,
                   cols, fl_wtper, result, engine_keys, mxVars>>
    /\ UNCHANGED probes

\* lines 3512-3552: every loop condition is false; the bulk is set once more
\* and equilibrated (same composition as the last reported XH2O_fluid) and
\* the dict is returned
DvFinal ==
    /\ pc = "dv_loop"
    /\ UNCHANGED mlVars
    /\ engine_use' = AfterEq(AfterSet(engine_use))
    /\ NextLoop(stage, XH2O_fluid, op.X_fluid) = 9
    /\ bulk' = BulkWith(op.sample, H2O_val, CO2_val)
    /\ lastEq' = [handed |-> pressureMPa, bars |-> op.pressure]
    /\ stage' = 9
    /\ result' = [status |-> "ok",
                  value |-> IF op.verbose
                            THEN [pressure |-> op.pressure,
                                  H2O_liq |-> H2O_val, CO2_liq |-> CO2_val,
                                  XH2O_fl |-> XH2O_fluid,
                                  XCO2_fl |-> XOne - XH2O_fluid]
                            ELSE [H2O |-> H2O_val, CO2 |-> CO2_val]]
    /\ pc' = "done"
    /\ UNCHANGED <<op, caller_sample, sample_local, sample_bound, pressureMPa,
                   fluid_mass, xmlout, data, P_array, output, idx, cols,
                   fl_wtper, iters, engine_keys, H2O_val, CO2_val, XH2O_fluid,
                   mxVars>>
    /\ UNCHANGED probes

\* --------------------------------- MagmaSat.calculate_equilibrium_fluid_comp
Modes == {"wtper", "molfrac"}

\* lines 3595-3624
EqFluidCall ==
    /\ pc = "idle"
    /\ UNCHANGED mlVars
    /\ engine_use' = AfterSet(AfterEq(AfterSet(engine_use)))
    /\ \E s \in Samples, P \in Pressures, m \in Modes :
         /\ op' = [NoOp EXCEPT !.name = "equilibrium_fluid_comp", !.sample = s,
                               !.pressure = P, !.mode = m]
         /\ caller_sample' = s
         /\ bulk' = s
         /\ pressureMPa' = P \div 10
         /\ lastEq' = [handed |-> P \div 10, bars |-> P]
         /\ \E x \in Equilibrate(s, P \div 10, engine_keys) :
              /\ fluid_mass' = x.fl_mass
              /\ xmlout' = x
              /\ result' = [status |-> "ok",
                            value |-> IF x.fl_mass > 0
                                      THEN IF m = "wtper"
                                           THEN [H2O |-> x.flH2O, CO2 |-> x.flCO2]
                                           ELSE [H2O |-> x.Water, CO2 |-> x.CarbonDioxide]
                                      ELSE [H2O |-> 0, CO2 |-> 0]]
    /\ pc' = "done"
    /\ UNCHANGED <<sample_local, sample_bound, data, P_array, output, idx, cols,
                   fl_wtper, iters, engine_keys, dvVars, mxVars>>
    /\ UNCHANGED probes

\* --------------------------------------- MixedFluids.calculate_degassing_paths
\* volatile_species of the registry's mixed models: ('CO2', 'H2O')
volatile_species == <<"CO2", "H2O">>

\* caller-supplied pressure lists (bars) and fractionate_vapor (in tenths)
PressureLists == { <<300, 200, 100>>, <<100, 300>> }
FracOne == 10
Fractions == {0, 5, FracOne}

\* outcomes of calculate_equilibrium_fluid_comp: (0,0) when the pressure is
\* above saturation, otherwise (Xv0, 1 - Xv0) from the bracketed root-find
EqFluidOutcomes == { <<0, 0>>, <<0, XOne>>, <<XOne, 0>>, <<3000, 7000>> }

\* wt% a single-species law may return as dissolved at a step: the whole of
\* what the system holds, or part of it
DissolvedOutcomes(held) == { held, held \div 2 }

\* the update without the retained-vapor term: every step fully fractionated
RetainedNone(w, ws, f) == w

\* lines 3229-3230: wtm + (1-fractionate_vapor)*(wtm_s - wtm)
Retained(w, ws, f) == w + ((FracOne - f) * (ws - w)) \div FracOne

\* lines 3208-3213
MixDegasCall ==
    /\ pc = "idle"
    /\ UNCHANGED mlVars
    /\ engine_use' = engine_use
    /\ \E s \in Samples, ps \in PressureLists, f \in Fractions :
         /\ op' = [NoOp EXCEPT !.name = "mixed_degassing_paths", !.sample = s,
                               !.pressures = ps, !.fractionate_vapor = f]
         /\ caller_sample' = s
         /\ wtptoxides' = normalize_FixedVolatiles(s)
         /\ wtm' = [i \in 1..Len(ps) |-> <<0, 0>>]
         /\ Xv' = [i \in 1..Len(ps) |-> <<0, 0>>]
    /\ idx' = 1
    /\ result' = NoResult
    /\ pc' = "mx_loop"
    /\ UNCHANGED <<dgVars, bulk, lastEq, iters, engine_keys, dvVars>>
    /\ UNCHANGED probes

\* wtm0s, wtm1s of line 3213
wtm_s(k) == normalize_FixedVolatiles(op.sample)[volatile_species[k]]

\* lines 3215-3231: one pass of the loop over pressures
MixDegasStep ==
    /\ pc = "mx_loop"
    /\ UNCHANGED mlVars
    /\ engine_use' = engine_use
    /\ idx <= Len(op.pressures)
    /\ \E X_fluid \in EqFluidOutcomes :
         /\ Xv' = [Xv EXCEPT ![idx] = X_fluid]
         /\ IF X_fluid = <<0, 0>>
            THEN /\ wtm' = [wtm EXCEPT ![idx] = <<wtptoxides[volatile_species[1]],
                                                   wtptoxides[volatile_species[2]]>>]
                 /\ UNCHANGED wtptoxides
            ELSE \E d0 \in DissolvedOutcomes(wtptoxides[volatile_species[1]]),
                    d1 \in DissolvedOutcomes(wtptoxides[volatile_species[2]]) :
                   LET w0 == IF X_fluid[1] = 0 THEN wtptoxides[volatile_species[1]] ELSE d0
                       w1 == IF X_fluid[1] # 0 /\ X_fluid[2] = 0
                             THEN wtptoxides[volatile_species[2]] ELSE d1
                       kept == [wtptoxides EXCEPT
                                  ![volatile_species[1]] =
                                      Retained(w0, wtm_s(1), op.fractionate_vapor),
                                  ![volatile_species[2]] =
                                      Retained(w1, wtm_s(2), op.fractionate_vapor)]
                   IN  /\ wtm' = [wtm EXCEPT ![idx] = <<w0, w1>>]
                       /\ wtptoxides' = normalize_FixedVolatiles(kept)
    /\ idx' = idx + 1
    /\ UNCHANGED <<pc, op, caller_sample, dgVars, bulk, lastEq, iters, result,
                   engine_keys, dvVars>>
    /\ UNCHANGED probes

\* line 3233
MixDegasFinish ==
    /\ pc = "mx_loop"
    /\ UNCHANGED mlVars
    /\ engine_use' = engine_use
    /\ idx > Len(op.pressures)
    /\ result' = [status |-> "ok", value |-> <<wtm, Xv>>]
    /\ pc' = "done"
    /\ UNCHANGED <<op, caller_sample, dgVars, bulk, lastEq, idx, iters,
                   engine_keys, dvVars, mxVars>>
    /\ UNCHANGED probes


\* ============================ solubility laws and the MixedFluids coordinator
\* the single-species laws, and the registry's two-species coordinators
Laws == {"ShishkinaCarbon", "ShishkinaWater", "DixonCarbon", "DixonWater",
         "IaconoMarzianoCarbon", "IaconoMarzianoWater", "EguchiCarbon",
         "AllisonCarbon"}
MixedModels == {"Shishkina", "Dixon", "IaconoMarziano"}

\* pressures (bars) a caller queries, and the values a saturation-pressure
\* root-find may hand back for the samples
QueryPressures == {1000, 2000}
RootValues == {500, 1000, 2000, 2500}

\* scipy.optimize.root_scalar and root as the source calls them (defaults, no
\* options): the result object carries the last iterate in .root / .x and a
\* flag telling whether the iteration converged; nothing is raised when it
\* did not
RootFind(S) == { [called |-> TRUE, converged |-> c, root |-> r] :
                   c \in BOOLEAN, r \in S }

\* `root_scalar(...).root`, `root(...).x[0]`: the value the source takes from
\* the result object, without reading the flag
RootTaken(r) == r.root

\* lines 1763, 1915: the method is called as
\* self.calculate_saturation_pressure(self, sample=sample, **kwargs), so
\* `sample` receives two values and Python raises TypeError at the call
SelfPassedTwice(law) == law \in {"ShishkinaCarbon", "ShishkinaWater"}

\* the return value of a law's calculate_equilibrium_fluid_comp for the
\* saturation pressure sp and the queried pressure P (1 for 1.0, 0 for 0.0)
LawFluid(law, sp, P) ==
    CASE law \in {"ShishkinaCarbon", "ShishkinaWater", "DixonCarbon", "DixonWater"} ->
           IF sp > P THEN 0 ELSE 1
      [] law \in {"IaconoMarzianoCarbon", "IaconoMarzianoWater"} ->
           IF P > sp THEN 0 ELSE 1
      [] law \in {"EguchiCarbon", "AllisonCarbon"} ->
           IF P > sp THEN 1 ELSE 0

\* fluid mole fractions a caller asks a saturation pressure for
SatXFluids == {5000, XOne}

\* the X_fluid the residual root_saturation_pressure evaluates the forward law
\* at.  DixonCarbon and DixonWater declare X_fluid as a parameter of
\* calculate_saturation_pressure (lines 2065, 2255) and hand the root-find
\* args=(sample,kwargs) (lines 2084, 2273): the residual calls
\* calculate_dissolved_volatiles(pressure, sample, **kwargs) (lines 2149,
\* 2397), which falls back on its default X_fluid=1.0.  The other laws keep
\* X_fluid in kwargs (lines 1783, 1936, 2562, 2842) or in args (lines 2971,
\* 3122)
ResidualXFluid(law, X_fluid) ==
    IF law \in {"DixonCarbon", "DixonWater"} THEN XOne ELSE X_fluid

\* <law>.calculate_saturation_pressure
LawSatCall ==
    /\ pc = "idle"
    /\ \E law \in Laws, s \in Samples, X \in SatXFluids, r \in RootFind(RootValues) :
         /\ op' = [NoOp EXCEPT !.name = "law_saturation_pressure", !.law = law,
                               !.sample = s, !.X_fluid = X]
         /\ caller_sample' = s
         /\ solver' = r
         /\ solved' = [X_fluid |-> ResidualXFluid(law, X), sample |-> s]
         /\ satP' = RootTaken(r)
         /\ result' = [status |-> "ok", value |-> RootTaken(r)]
    /\ pc' = "done"
    /\ UNCHANGED <<dgVars, dvVars, mxVars, sample_keys, bulk, lastEq, idx, iters,
                   engine_keys, engine_use, evaluated, printed, trace, registry>>
    /\ UNCHANGED probes

\* <law>.calculate_equilibrium_fluid_comp
LawEqFluidCall ==
    /\ pc = "idle"
    /\ \E law \in Laws, s \in Samples, P \in QueryPressures :
         /\ op' = [NoOp EXCEPT !.name = "law_equilibrium_fluid_comp",
                               !.law = law, !.sample = s, !.pressure = P]
         /\ caller_sample' = s
         /\ IF SelfPassedTwice(law)
            THEN /\ result' = [status |-> "TypeError", value |-> 0]
                 /\ UNCHANGED <<solver, solved, satP>>
            ELSE \E r \in RootFind(RootValues) :
                   /\ solver' = r
                   /\ solved' = [X_fluid |-> XOne, sample |-> s]
                   /\ satP' = RootTaken(r)
                   /\ result' = [status |-> "ok",
                                 value |-> LawFluid(law, RootTaken(r), P)]
    /\ pc' = "done"
    /\ UNCHANGED <<dgVars, dvVars, mxVars, sample_keys, bulk, lastEq, idx, iters,
                   engine_keys, engine_use, evaluated, printed, trace, registry>>
    /\ UNCHANGED probes

\* numbers of single-species laws a MixedFluids coordinator is built from
SpeciesCounts == {1, 2, 3}

\* roots the bracketed solve of line 3170 may hand back (mole fraction of the
\* first species, between 0 and 1)
BracketRoots == {0, 3000, XOne}

\* the test with the opposite sense
MixedSaturated(sp, P) == sp > P

\* line 3160: `if satP < pressure: return (0,0)`
MixedUndersaturated(sp, P) == sp < P

\* the first mole fraction handed back for both
ComplementSame(x) == x

\* line 3171: Xv1 = 1 - Xv0
Complement(x) == XOne - x

\* lines 3156, 3145, 3150: the messages written where an error is due
MsgTwoSpecies == "WRITE CODE TO RAISE AN ERROR- CAN ONLY HANDLE TWO VOLATILE SPECIES"
MsgError0 == "YOU NEED TO WRITE THE CODE TO RAISE AN ERROR! 0"
MsgError1 == "YOU NEED TO WRITE THE CODE TO RAISE AN ERROR! 1"

\* lines 3176-3183, 3236-3238: the residual of the two-variable root is taken
\* on sample_mod = normalize_FixedVolatiles(sample), at the fluid (x[1], 1-x[1])
MixedResidual(sample, x1) ==
    [X_fluid |-> x1, sample |-> normalize_FixedVolatiles(sample)]

\* MixedFluids.calculate_saturation_pressure, lines 3175-3185: one root_scalar
\* per law for the starting point, then the two-variable root
MixSatCall ==
    /\ pc = "idle"
    /\ \E m \in MixedModels, s \in RawSamples, r \in RootFind(RootValues) :
         /\ op' = [NoOp EXCEPT !.name = "mixed_saturation_pressure",
                               !.model = m, !.sample = s, !.n_species = 2]
         /\ caller_sample' = s
         /\ solver' = r
         /\ \E x1 \in BracketRoots : solved' = MixedResidual(s, x1)
         /\ satP' = RootTaken(r)
         /\ result' = [status |-> "ok", value |-> RootTaken(r)]
    /\ pc' = "done"
    /\ UNCHANGED <<dgVars, dvVars, mxVars, sample_keys, bulk, lastEq, idx, iters,
                   engine_keys, engine_use, evaluated, printed, trace, registry>>
    /\ UNCHANGED probes

\* MixedFluids.calculate_equilibrium_fluid_comp, lines 3154-3173
MixEqFluidCall ==
    /\ pc = "idle"
    /\ \E n \in SpeciesCounts, s \in Samples, P \in QueryPressures :
         /\ op' = [NoOp EXCEPT !.name = "mixed_equilibrium_fluid_comp",
                               !.sample = s, !.pressure = P, !.n_species = n]
         /\ caller_sample' = s
         /\ printed' = IF n # 2 THEN <<MsgTwoSpecies>> ELSE <<>>
         /\ IF n # 2
            THEN \* the two-variable root gets a residual of another length
                 /\ \E e \in {"TypeError", "ValueError"} :
                      result' = [status |-> e, value |-> 0]
                 /\ UNCHANGED <<solver, solved, satP>>
            ELSE \E r \in RootFind(RootValues) :
                   /\ solver' = r
                   /\ \E x1 \in BracketRoots : solved' = MixedResidual(s, x1)
                   /\ satP' = RootTaken(r)
                   /\ IF MixedUndersaturated(RootTaken(r), P)
                      THEN result' = [status |-> "ok", value |-> <<0, 0>>]
                      ELSE \/ \E Xv0 \in BracketRoots :
                                result' = [status |-> "ok",
                                           value |-> <<Xv0, Complement(Xv0)>>]
                           \/ \* no sign change over the bracket (0,1)
                              result' = [status |-> "ValueError", value |-> 0]
    /\ pc' = "done"
    /\ UNCHANGED <<dgVars, dvVars, mxVars, sample_keys, bulk, lastEq, idx, iters,
                   engine_keys, engine_use, evaluated, trace, registry>>
    /\ UNCHANGED probes

\* shapes of the X_fluid argument of MixedFluids.calculate_dissolved_volatiles
XTypes == {"tuple", "list", "dict", "ndarray"}
XLens == {1, 2, 3}

\* wt% a single-species law hands back for one fluid entry
LawDissolved == {0, 2500}

\* smaller of two naturals: zip stops at the shorter of its arguments
Shorter(a, b) == IF a < b THEN a ELSE b

\* MixedFluids.calculate_dissolved_volatiles, lines 3143-3152
MixDissolvedCall ==
    /\ pc = "idle"
    /\ \E n \in SpeciesCounts, t \in XTypes, l \in XLens, P \in QueryPressures :
         LET msg0 == IF l # n THEN <<MsgError0>> ELSE <<>>
             msg1 == IF t \notin {"dict", "tuple", "list"} THEN <<MsgError1>> ELSE <<>>
             \* a dict is read at every species name: one it lacks is a KeyError
             missing == t = "dict" /\ l < n
             \* entries left for zip: a dict is rebuilt with one per species
             entries == IF t = "dict" THEN n ELSE l
             k == Shorter(n, entries)
         IN  /\ op' = [NoOp EXCEPT !.name = "mixed_dissolved_volatiles",
                                   !.pressure = P, !.n_species = n,
                                   !.X_len = l, !.X_type = t]
             /\ printed' = msg0 \o msg1
             /\ IF missing
                THEN /\ result' = [status |-> "KeyError", value |-> 0]
                     /\ evaluated' = 0
                ELSE /\ evaluated' = k
                     /\ \E v \in [1..k -> LawDissolved] :
                          result' = [status |-> "ok", value |-> v]
    /\ pc' = "done"
    /\ UNCHANGED <<dgVars, dvVars, mxVars, sample_keys, caller_sample, bulk, lastEq, idx,
                   iters, engine_keys, engine_use, satP, solver, solved, trace, registry>>
    /\ UNCHANGED probes

\* ------------------------------------------------------ composition utilities
\* lines 25-43, for the oxides carried here; masses in units of 0.001
oxideMass == [SiO2 |-> 60085, MgO |-> 40305, Na2O |-> 61980, H2O |-> 18020, CO2 |-> 44010]
CationNum == [SiO2 |-> 1, MgO |-> 1, Na2O |-> 2, H2O |-> 2, CO2 |-> 1]
OxygenNum == [SiO2 |-> 2, MgO |-> 1, Na2O |-> 1, H2O |-> 1, CO2 |-> 2]
CationMass == [SiO2 |-> 28085, MgO |-> 24305, Na2O |-> 22990, H2O |-> 2000, CO2 |-> 12010]
OxygenFW == 15999

\* num[ox] * sample[ox] / (den[ox] * oxideMass[ox]) for every oxide, divided by
\* the sum: mole fractions in units of 0.0001
MolFractions(sample, num, den) ==
    LET amount == [k \in oxides |->
                     MulDiv(sample[k], 1000 * num[k], den[k] * oxideMass[k])]
        total == SumOf(amount)
    IN  [k \in oxides |-> MulDiv(amount[k], XOne, total)]

Ones == [k \in oxides |-> 1]

\* lines 130-158, 160-187, 189-218
wtpercentOxides_to_molCations(sample) == MolFractions(sample, CationNum, Ones)
wtpercentOxides_to_molOxides(sample) == MolFractions(sample, Ones, Ones)
wtpercentOxides_to_molSingleO(sample) == MolFractions(sample, CationNum, OxygenNum)

\* lines 220-244, in units of 0.001
wtpercentOxides_to_formulaWeight(sample) ==
    LET cations == wtpercentOxides_to_molSingleO(sample)
        part(k) == MulDiv(cations[k], CationMass[k], XOne)
    IN  OxygenFW + part("SiO2") + part("MgO") + part("Na2O") + part("H2O") + part("CO2")

\* lines 365-423: anhydrous oxides rescaled to 100, volatiles added on top
normalize_AdditionalVolatiles(sample) ==
    LET anh == sample["SiO2"] + sample["MgO"] + sample["Na2O"]
    IN  [k \in oxides |->
            IF k \in {"H2O", "CO2"} THEN sample[k]
            ELSE MulDiv(sample[k], Total, anh)]

Utilities == {"wtpercentOxides_to_molCations", "wtpercentOxides_to_molOxides",
              "wtpercentOxides_to_molSingleO", "wtpercentOxides_to_formulaWeight",
              "normalize_FixedVolatiles", "normalize_AdditionalVolatiles"}

\* Python types of the composition argument
ArgTypes == {"dict", "Series", "DataFrame", "list"}

\* the types each utility has a branch for
Supported(u, t) ==
    IF u \in {"normalize_FixedVolatiles", "normalize_AdditionalVolatiles"}
    THEN t \in {"dict", "Series", "ExcelFile", "DataFrame"}
    ELSE t \in {"dict", "Series"}

Convert(u, s) ==
    CASE u = "wtpercentOxides_to_molCations" -> wtpercentOxides_to_molCations(s)
      [] u = "wtpercentOxides_to_molOxides" -> wtpercentOxides_to_molOxides(s)
      [] u = "wtpercentOxides_to_molSingleO" -> wtpercentOxides_to_molSingleO(s)
      [] u = "wtpercentOxides_to_formulaWeight" -> wtpercentOxides_to_formulaWeight(s)
      [] u = "normalize_FixedVolatiles" -> normalize_FixedVolatiles(s)
      [] u = "normalize_AdditionalVolatiles" -> normalize_AdditionalVolatiles(s)

\* the InputError instance the last branch builds
InputErrorObject == "InputError(The composition input must be a pandas Series or dictionary.)"

\* one call of a utility: the last branch is `return InputError(...)` (lines
\* 148, 178, 208, 235, 361, 422), so the exception object is the return value
UtilityCall ==
    /\ pc = "idle"
    /\ \E u \in Utilities, t \in ArgTypes, s \in Samples :
         /\ op' = [NoOp EXCEPT !.name = "utility", !.entry = u, !.arg_type = t,
                               !.sample = s]
         /\ caller_sample' = s
         /\ result' = [status |-> "ok",
                       value |-> IF Supported(u, t) THEN Convert(u, s)
                                 ELSE InputErrorObject]
    /\ pc' = "done"
    /\ UNCHANGED <<dgVars, dvVars, mxVars, mlVars, bulk, lastEq, idx, iters,
                   engine_keys, engine_use>>
    /\ UNCHANGED probes

\* ------------------------------------------------------- the forward laws
\* laws whose fugacity model is fugacity_KJ81_co2 / fugacity_KJ81_h2o (lines
\* 2004, 2192, 2935, 3060): lnPhi_mix solves the molar volume with
\* root_scalar (lines 1126, 1404, 1258, 1536)
UsesKJ81(law) == law \in {"DixonCarbon", "DixonWater", "EguchiCarbon", "AllisonCarbon"}

\* laws with a solve of their own inside calculate_dissolved_volatiles: the
\* hydroxyl speciation of DixonWater (line 2348) and the inner H2O solve of
\* IaconoMarzianoWater (line 2500)
InnerSolve(law) == law \in {"DixonWater", "IaconoMarzianoWater"}

\* fluid mole fractions handed to a law, and iterates its inner solves end on
LawXFluids == {0, 5000, XOne}
InnerRoots == {15, 35}

\* the partial pressure with the mole fraction left out
fugacity_total(pressure, X_fluid) == pressure

\* fugacity_idealgas.fugacity, line 1038: pressure*X_fluid (bars x 0.0001)
fugacity_idealgas(pressure, X_fluid) == pressure * X_fluid

\* fugacity_KJ81_co2 / _h2o .fugacity, lines 1087-1092 and 1365-1370: 0 at
\* X_fluid = 0, before lnPhi_mix is reached; otherwise
\* pressure*exp(lnPhi_mix)*X_fluid.  The fugacity coefficient is positive, and
\* only the sign of this value is used below
fugacity_KJ81(pressure, X_fluid) ==
    IF X_fluid = 0 THEN 0 ELSE pressure * X_fluid

Fugacity(law, pressure, X_fluid) ==
    IF UsesKJ81(law) THEN fugacity_KJ81(pressure, X_fluid)
    ELSE fugacity_idealgas(pressure, X_fluid)

\* the parameterizations a law is built with: `hydrous` of the
\* IaconoMarziano laws (lines 2439, 2693), `model_fit` of AllisonCarbon (line
\* 3058); the registry builds every law with its defaults
Variants(law) ==
    CASE law \in {"IaconoMarzianoCarbon", "IaconoMarzianoWater"} ->
           {"hydrous", "anhydrous"}
      [] law = "AllisonCarbon" -> {"power", "thermodynamic"}
      [] OTHER -> {"default"}

RegistryVariant(law) ==
    CASE law \in {"IaconoMarzianoCarbon", "IaconoMarzianoWater"} -> "hydrous"
      [] law = "AllisonCarbon" -> "power"
      [] OTHER -> "default"

\* whether evaluating the law at X_fluid runs a root_scalar solve: the KJ81
\* molar volume (not reached at X_fluid = 0), the hydroxyl speciation of
\* DixonWater (skipped when XH2O < 1e-14, line 2346), the inner solve of the
\* hydrous IaconoMarzianoWater (skipped at X_fluid == 0, line 2498), which
\* the hydrous IaconoMarzianoCarbon runs at 1 - X_fluid (lines 2752-2754)
SolverInvoked(law, variant, X_fluid) ==
    \/ UsesKJ81(law) /\ X_fluid # 0
    \/ InnerSolve(law) /\ variant # "anhydrous" /\ X_fluid # 0
    \/ law = "IaconoMarzianoCarbon" /\ variant = "hydrous" /\ XOne - X_fluid # 0

\* ShishkinaCarbon.PiStar, lines 1696-1714, for the oxides carried here:
\* (0.7 Na + 0.4 Mg) / Si of the cation fractions, in units of 0.0001
PiStar(sample) ==
    LET _mols == wtpercentOxides_to_molCations(sample)
    IN  MulDiv(7 * _mols["Na2O"] + 4 * _mols["MgO"], XOne, 10 * _mols["SiO2"])

\* ShishkinaWater, lines 1887-1888: _mols['Na'] + _mols['K']
total_alkalis(sample) == wtpercentOxides_to_molCations(sample)["Na2O"]

\* what a law's formula reads from the sample it is handed
\*   ShishkinaCarbon       Pi* (line 1734)
\*   ShishkinaWater        the alkali cation fraction (line 1888)
\*   DixonCarbon / Water   sample['SiO2'] (lines 2130, 2322)
\*   IaconoMarzianoWater   NBO/O of the sample with H2O replaced by the
\*                         iterate (lines 2619-2621, 2642-2651): the other oxides' wt%
\*   IaconoMarzianoCarbon  NBO/O and the molar proportions of the sample with
\*                         H2O replaced (lines 2755-2766)
\*   EguchiCarbon          mole fractions and formula weight (lines 3018-3019,
\*                         2949)
\*   AllisonCarbon         nothing in the power-law fit (line 3104), the
\*                         formula weight in the thermodynamic one (line 3090)
\* (the anhydrous IaconoMarziano fits read the sample as it is, lines 2512,
\* 2775-2777)
CompParam(law, variant, sample) ==
    CASE law = "ShishkinaCarbon" -> <<PiStar(sample)>>
      [] law = "ShishkinaWater" -> <<total_alkalis(sample)>>
      [] law \in {"DixonCarbon", "DixonWater"} -> <<sample["SiO2"]>>
      [] law = "IaconoMarzianoWater" ->
           <<sample["SiO2"], sample["MgO"], sample["Na2O"]>>
      [] law = "IaconoMarzianoCarbon" /\ variant = "hydrous" ->
           <<sample["SiO2"], sample["MgO"], sample["Na2O"], sample["CO2"]>>
      [] law = "IaconoMarzianoCarbon" /\ variant = "anhydrous" ->
           <<sample["SiO2"], sample["MgO"], sample["Na2O"], sample["H2O"],
             sample["CO2"]>>
      [] law = "EguchiCarbon" ->
           LET X == wtpercentOxides_to_molOxides(sample)
           IN  <<X["SiO2"], X["MgO"], X["Na2O"], X["H2O"], X["CO2"],
                 wtpercentOxides_to_formulaWeight(sample)>>
      [] law = "AllisonCarbon" ->
           IF variant = "thermodynamic"
           THEN <<wtpercentOxides_to_formulaWeight(sample)>>
           ELSE <<>>

\* the number 0 as a law's return value
ZeroWt == [zero |-> TRUE, pressure |-> 0, X_fluid |-> 0, comp |-> <<>>]

\* a wt% a law computed: the laws' formulas use exp, log and powers, so the
\* value is carried as the arguments the formula was applied to.  Equal
\* arguments give the same float; the formulas are strictly monotone in the
\* compositional parameter, so different arguments give different values
Wt(pressure, X_fluid, comp) ==
    [zero |-> FALSE, pressure |-> pressure, X_fluid |-> X_fluid, comp |-> comp]

\* where a law's calculate_dissolved_volatiles comes out as 0:
\*   ShishkinaCarbon       `if fugacity == 0: return 0` (line 1741)
\*   ShishkinaWater        never: a*total_alkalis + b with b = 1.1297 at
\*                         fugacity 0 (lines 1892-1895)
\*   DixonCarbon / Water   XCO3Std*fugacity*..., XH2OStd*fugacity*... and XOH
\*                         = 0 (lines 2114, 2305, 2346)
\*   IaconoMarzianoWater   `if X_fluid==0: return 0` (line 2498, hydrous),
\*                         `if fugacity == 0: return 0` (line 2510, anhydrous)
\*   IaconoMarzianoCarbon  `if fugacity == 0: return 0` (line 2781)
\*   EguchiCarbon          exp(B*log(0)/T + ...) = exp(-inf) = 0 (lines 3042-3049)
\*   AllisonCarbon         params[0]*fCO2**params[1]/1e4 (line 3104);
\*                         Kf = exp(lnK)*fCO2 = 0, XCO3 = 0 (lines 3086-3091)
ReturnsZero(law, variant, pressure, X_fluid) ==
    CASE law = "ShishkinaWater" -> FALSE
      [] law = "IaconoMarzianoWater" /\ variant = "hydrous" -> X_fluid = 0
      [] OTHER -> Fugacity(law, pressure, X_fluid) = 0

\* <law>.calculate_dissolved_volatiles(pressure, sample, X_fluid) of a law
\* built with the given parameterization
VariantWt(law, variant, pressure, sample, X_fluid) ==
    IF ReturnsZero(law, variant, pressure, X_fluid) THEN ZeroWt
    ELSE Wt(pressure, X_fluid, CompParam(law, variant, sample))

\* the same for the registry's instance of the law
LawWt(law, pressure, sample, X_fluid) ==
    VariantWt(law, RegistryVariant(law), pressure, sample, X_fluid)

\* one call of <law>.calculate_dissolved_volatiles
LawDissolvedCall ==
    /\ pc = "idle"
    /\ \E law \in Laws, s \in Samples, P \in QueryPressures, X \in LawXFluids :
         \E v \in Variants(law) :
         /\ op' = [NoOp EXCEPT !.name = "law_dissolved_volatiles", !.law = law,
                               !.variant = v, !.sample = s, !.pressure = P,
                               !.X_fluid = X]
         /\ caller_sample' = s
         /\ IF SolverInvoked(law, v, X)
            THEN \E r \in RootFind(InnerRoots) : solver' = r
            ELSE UNCHANGED solver
         /\ result' = [status |-> "ok", value |-> VariantWt(law, v, P, s, X)]
    /\ evaluated' = 1
    /\ pc' = "done"
    /\ UNCHANGED <<dgVars, dvVars, mxVars, sample_keys, bulk, lastEq, idx, iters,
                   engine_keys, engine_use, satP, solved, printed, trace, registry>>
    /\ UNCHANGED probes

\* ------------------------------------------------------ check_calibration_range
\* registry entries that are not single-species laws
RegistryModels == Laws \cup MixedModels \cup {"MagmaSat"}

\* the two laws a registry coordinator is built from (lines 4115-4117)
MixedParts(m) ==
    CASE m = "Shishkina" -> <<"ShishkinaCarbon", "ShishkinaWater">>
      [] m = "Dixon" -> <<"DixonCarbon", "DixonWater">>
      [] m = "IaconoMarziano" -> <<"IaconoMarzianoCarbon", "IaconoMarzianoWater">>

\* calibration limits: lines 1829, 1833 (Shishkina; the temperatures are
\* 1200+273.15 and 1250+273.15, here in units of 0.01 K), lines 1335, 1337 (KJ81)
ShishkinaPMin == 500
ShishkinaPMax == 5000
ShishkinaTMin == 147315
ShishkinaTMax == 152315
KJ81PMax == 20000
KJ81TMax == 1323

\* parameter dictionaries handed over: pressure in bars, temperature in K
ParameterSets ==
    { [pressure |-> P, temperature |-> T] : P \in {1000, 25000}, T \in {1300, 1500} }
    \cup { [pressure |-> P] : P \in {100, 1000} }

\* fugacity_idealgas / activity_idealsolution, lines 1040-1061, 1642-1663
IdealRange(parameters) == [k \in DOMAIN parameters |-> TRUE]

\* fugacity_KJ81_co2 / _h2o, lines 1315-1338, 1593-1616
KJ81Range(parameters) ==
    [k \in DOMAIN parameters |->
        IF k = "pressure" THEN parameters[k] < KJ81PMax
        ELSE parameters[k] < KJ81TMax]

FugacityRange(law, parameters) ==
    IF UsesKJ81(law) THEN KJ81Range(parameters) ELSE IdealRange(parameters)

ShishkinaRange(parameters) ==
    [k \in DOMAIN parameters |->
        IF k = "pressure"
        THEN parameters[k] > ShishkinaPMin /\ parameters[k] < ShishkinaPMax
        ELSE parameters[k] * 100 > ShishkinaTMin /\ parameters[k] * 100 < ShishkinaTMax]

\* laws whose method is declared (self, **kwargs) and then reads the
\* undefined name `parameters` (lines 2399, 2653, 2897)
ReadsUndefinedParameters(law) ==
    law \in {"DixonWater", "IaconoMarzianoWater", "IaconoMarzianoCarbon"}

\* what <law>.check_calibration_range(parameters=parameters) does
LawCalibration(law, parameters) ==
    CASE law \in {"ShishkinaCarbon", "ShishkinaWater"} ->
           [status |-> "ok",
            value |-> [kind |-> "dict",
                       v |-> [k \in DOMAIN parameters |->
                               [ShishkinaModel |-> ShishkinaRange(parameters)[k],
                                FugacityModel |-> FugacityRange(law, parameters)[k],
                                ActivityModel |-> IdealRange(parameters)[k]]]]]
      [] law = "DixonCarbon" ->
           [status |-> "ok",
            value |-> [kind |-> "dict",
                       v |-> [k \in DOMAIN parameters |->
                               [FugacityModel |-> FugacityRange(law, parameters)[k],
                                ActivityModel |-> IdealRange(parameters)[k]]]]]
      [] ReadsUndefinedParameters(law) ->
           [status |-> "NameError", value |-> [kind |-> "none", v |-> 0]]
      [] law \in {"EguchiCarbon", "AllisonCarbon", "MagmaSat"} ->
           [status |-> "ok", value |-> [kind |-> "int", v |-> 0]]

\* MixedFluids.check_calibration_range, lines 3257-3261: one entry per
\* species; an exception of a law's check ends the call
MixedCalibration(m, parameters) ==
    LET c0 == LawCalibration(MixedParts(m)[1], parameters)
        c1 == LawCalibration(MixedParts(m)[2], parameters)
    IN  IF c0.status # "ok" THEN c0
        ELSE IF c1.status # "ok" THEN c1
        ELSE [status |-> "ok",
              value |-> [kind |-> "dict",
                         v |-> [CO2 |-> c0.value, H2O |-> c1.value]]]

CalibrationCall ==
    /\ pc = "idle"
    /\ \E m \in RegistryModels, parameters \in ParameterSets :
         /\ op' = [NoOp EXCEPT !.name = "check_calibration_range", !.model = m,
                               !.parameters = parameters]
         /\ result' = IF m \in MixedModels THEN MixedCalibration(m, parameters)
                      ELSE LawCalibration(m, parameters)
    /\ pc' = "done"
    /\ UNCHANGED <<dgVars, dvVars, mxVars, mlVars, caller_sample, bulk, lastEq,
                   idx, iters, engine_keys, engine_use>>
    /\ UNCHANGED probes

\* ------------------------------------------------------------------ Calculate
\* the Calculate subclasses, lines 4129-4195
CalcEntries == {"calculate_dissolved_volatiles", "calculate_equilibrium_fluid_comp",
                "calculate_isobars_and_isopleths", "calculate_saturation_pressure",
                "calculate_degassing_paths"}

\* <model>.preprocess_sample: lines 1677, 1850, 2007, 2195, 2453 and 2707
\* (hydrous=True, the registry's construction), 2939, 3065, 3140, 3288
Preprocess(m, sample) ==
    CASE m = "ShishkinaWater" -> normalize_AdditionalVolatiles(sample)
      [] m \in {"IaconoMarzianoWater", "IaconoMarzianoCarbon"} ->
           normalize_FixedVolatiles(sample)
      [] OTHER -> sample

\* models that define calculate_degassing_paths / calculate_isobars_and_isopleths
HasPathMethods(m) == m \in MixedModels \cup {"MagmaSat"}

MsgReportError == "Write code to report error!!!!!"

\* wt% left set on the engine by MagmaSat.calculate_dissolved_volatiles, which
\* does not reset the bulk composition
VolatileLevels == {0, 1000}

\* fluid compositions handed to a two-species model, in the order of its
\* volatile_species: the pure end members and one mixed fluid
XPairs == { <<XOne, 0>>, <<0, XOne>>, <<5000, 5000>> }

\* the keyword arguments of a dissolved-volatiles entry
CalcArgs(e, m) ==
    IF e = "calculate_dissolved_volatiles" /\ m # "MagmaSat"
    THEN { [pressure |-> P, X_fluid |-> X, X_pair |-> pr] :
             P \in QueryPressures,
             X \in IF m \in Laws THEN {XOne} ELSE {0},
             pr \in IF m \in MixedModels THEN XPairs ELSE {<<>>} }
    ELSE { [pressure |-> 0, X_fluid |-> 0, X_pair |-> <<>>] }

\* oxide keys a caller's dict may hold: all of them, or all but one that the
\* melt does not contain
CallerKeys == { oxides, oxides \ {"Na2O"} }

\* the composition a dict with the given keys stands for; an oxide that is not
\* a key adds nothing to any sum over the dict
WithKeys(sample, keys) == [k \in oxides |-> IF k \in keys THEN sample[k] ELSE 0]

\* lines 996-1002: the model is looked up and the caller's sample copied
CalcInit ==
    /\ pc = "idle"
    /\ \E e \in CalcEntries, m \in RegistryModels, s \in RawSamples,
          ks \in CallerKeys :
         \E a \in CalcArgs(e, m) :
         /\ op' = [NoOp EXCEPT !.name = "Calculate", !.entry = e, !.model = m,
                               !.sample = WithKeys(s, ks), !.pressure = a.pressure,
                               !.X_fluid = a.X_fluid, !.X_pair = a.X_pair]
         /\ caller_sample' = WithKeys(s, ks)
         /\ sample_local' = WithKeys(s, ks)
         /\ sample_keys' = ks
    /\ sample_bound' = "local"
    /\ trace' = <<"copy">>
    /\ pc' = "calc_pre"
    /\ UNCHANGED <<pressureMPa, fluid_mass, xmlout, data, P_array, output, cols,
                   fl_wtper, dvVars, mxVars, bulk, lastEq, idx, iters, result,
                   engine_keys, engine_use, satP, solver, solved, evaluated, printed,
                   registry>>
    /\ UNCHANGED probes

\* the keys of the dict a model's preprocess_sample returns: MagmaSat's sets
\* every oxide of self.oxides that is missing to 0.0 (lines 3290-3294); the
\* normalisations rescale the entries the dict has (lines 316-362) and the
\* other models return the dict as it is
PreprocessKeys(m, keys) == IF m = "MagmaSat" THEN oxides ELSE keys

\* line 1003; MagmaSat.preprocess_sample also stores the sample on the
\* instance (line 3295)
CalcPreprocess ==
    /\ pc = "calc_pre"
    /\ sample_local' = Preprocess(op.model, sample_local)
    /\ sample_keys' = PreprocessKeys(op.model, sample_keys)
    /\ registry' = IF op.model = "MagmaSat"
                   THEN [registry EXCEPT !.MagmaSat.bulk_comp_orig = sample_local]
                   ELSE registry
    /\ trace' = Append(trace, "preprocess")
    /\ pc' = "calc_run"
    /\ UNCHANGED <<op, caller_sample, sample_bound, pressureMPa, fluid_mass,
                   xmlout, data, P_array, output, cols, fl_wtper, dvVars,
                   mxVars, bulk, lastEq, idx, iters, result, engine_keys, engine_use, satP,
                   solver, solved, evaluated, printed>>
    /\ UNCHANGED probes

\* oxide keys a law's calculate_dissolved_volatiles looks up in the dict (or
\* in the cation dict made from it, which has a cation for each oxide key):
\* ShishkinaCarbon 1696-1702, ShishkinaWater 1888, Dixon 2130 and 2322,
\* IaconoMarziano 2642-2651, Eguchi 3018-3036; Allison reads none
LawReadsKeys(law) ==
    CASE law \in {"ShishkinaCarbon", "IaconoMarzianoCarbon", "IaconoMarzianoWater"} ->
           {"SiO2", "MgO", "Na2O"}
      [] law = "ShishkinaWater" -> {"Na2O"}
      [] law \in {"DixonCarbon", "DixonWater"} -> {"SiO2"}
      [] law = "EguchiCarbon" -> {"SiO2", "Na2O"}
      [] OTHER -> {}

\* the same for a model of the registry: a two-species model calls both of its
\* laws (line 3152), MagmaSat hands the dict to the engine
ReadsKeys(m) ==
    IF m \in Laws THEN LawReadsKeys(m)
    ELSE IF m \in MixedModels
         THEN LawReadsKeys(MixedParts(m)[1]) \cup LawReadsKeys(MixedParts(m)[2])
         ELSE {}

\* how self.calculate(sample=self.sample, **kwargs) of line 1005 ends
CalculateOutcome(e, m, keys) ==
    CASE e = "calculate_degassing_paths" /\ HasPathMethods(m) ->
           \* lines 4188-4189 read the undefined names pressures and
           \* fractionate_vapor
           "NameError"
      [] e = "calculate_equilibrium_fluid_comp" /\ SelfPassedTwice(m) -> "TypeError"
      [] /\ e \in {"calculate_dissolved_volatiles", "calculate_saturation_pressure",
                  "calculate_equilibrium_fluid_comp"}
         /\ ~(ReadsKeys(m) \subseteq keys) -> "KeyError"
      [] OTHER -> "ok"

\* MixedFluids.calculate_dissolved_volatiles, line 3152: every law is handed
\* the coordinator's keyword arguments, the sample among them, and its own
\* entry of X_fluid
MixedWt(m, pressure, sample, X_fluid) ==
    [i \in 1..2 |-> LawWt(MixedParts(m)[i], pressure, sample, X_fluid[i])]

\* calculate_dissolved_volatiles.calculate, lines 4133-4135, for the laws and
\* the two-species models
DissolvedResult(m, pressure, sample, X_fluid, X_pair) ==
    IF m \in Laws THEN LawWt(m, pressure, sample, X_fluid)
    ELSE IF m \in MixedModels THEN MixedWt(m, pressure, sample, X_pair)
    ELSE 0

\* line 1005
CalcRun ==
    /\ pc = "calc_run"
    /\ trace' = Append(trace, "calculate")
    /\ LET out == CalculateOutcome(op.entry, op.model, sample_keys)
       IN  /\ result' = [status |-> out,
                         value |-> IF out = "ok" /\ op.entry = "calculate_dissolved_volatiles"
                                   THEN DissolvedResult(op.model, op.pressure,
                                            sample_local, op.X_fluid, op.X_pair)
                                   ELSE 0]
           /\ pc' = IF out = "ok" THEN "calc_check" ELSE "done"
    /\ printed' = IF /\ op.entry \in {"calculate_degassing_paths",
                                      "calculate_isobars_and_isopleths"}
                     /\ ~HasPathMethods(op.model)
                  THEN <<MsgReportError>> ELSE <<>>
    /\ IF op.model = "MagmaSat" /\ op.entry # "calculate_degassing_paths"
       THEN IF op.entry = "calculate_dissolved_volatiles"
            THEN \E h \in VolatileLevels, c \in VolatileLevels :
                   bulk' = BulkWith(sample_local, h, c)
            ELSE bulk' = sample_local
       ELSE UNCHANGED bulk
    /\ UNCHANGED <<op, caller_sample, sample_keys, dgVars, dvVars, mxVars, lastEq, idx, iters,
                   engine_keys, engine_use, satP, solver, solved, evaluated, registry>>
    /\ UNCHANGED probes

\* line 1006: every entry point's check_calibration_range returns 0
CalcCheck ==
    /\ pc = "calc_check"
    /\ trace' = Append(trace, "check_calibration_range")
    /\ pc' = "done"
    /\ UNCHANGED <<op, caller_sample, sample_keys, dgVars, dvVars, mxVars, bulk, lastEq, idx,
                   iters, result, engine_keys, engine_use, satP, solver, solved, evaluated,
                   printed,
                   registry>>
    /\ UNCHANGED probes

\* MagmaSat saturation pressure, equilibrium fluid and degassing paths, and
\* the MixedFluids degassing path
Next ==
    \/ SatCall \/ ExcelSatCall \/ SatCoarse \/ SatRefine1 \/ SatRefine2 \/ SatFinish
    \/ DegasCall \/ DegasGrid \/ Enrich \/ EnrichExit
    \/ RampEquilibrate \/ RampRow \/ RampFinish
    \/ OpenStep \/ OpenFinish
    \/ EqFluidCall
    \/ MixDegasCall \/ MixDegasStep \/ MixDegasFinish
    \/ Return

Spec == Init /\ [][Next]_vars

\* MagmaSat / ExcelFile dissolved volatiles
NextDissolved ==
    \/ DissolvedCall \/ ExcelDissolvedCall \/ DvInit \/ DvRefine \/ DvFinal
    \/ Return

SpecDissolved == Init /\ [][NextDissolved]_vars

\* the solubility laws, the MixedFluids coordinator and the MagmaSat
\* equilibrium fluid
NextModels ==
    \/ LawSatCall \/ LawEqFluidCall \/ MixSatCall \/ MixEqFluidCall
    \/ MixDissolvedCall \/ LawDissolvedCall
    \/ UtilityCall \/ CalibrationCall
    \/ CalcInit \/ CalcPreprocess \/ CalcRun \/ CalcCheck
    \/ EqFluidCall
    \/ Return

SpecModels == Init /\ [][NextModels]_vars

\* ======================================================== properties checked
IsDegassing == op.name = "degassing_paths"
IsMixDegassing == op.name = "mixed_degassing_paths"
IsDissolved == op.name \in {"dissolved_volatiles", "excel_dissolved_volatiles"}
Returned == pc = "done" /\ result.status = "ok"

\* C1: calculate_degassing_paths never mutates the caller-supplied sample: on
\* return every oxide value of the mapping passed in equals its value at call
\* time.
C1_CallerSampleUntouched ==
    (IsDegassing /\ Returned) => caller_sample = op.sample

\* C2: every pressure handed to the engine's equilibrate call is the
\* corresponding public-API pressure in bars divided by 10 (MPa), including
\* the pressures of the grid calculate_degassing_paths builds from the
\* saturation pressure.
C2_EnginePressureInMPa ==
    lastEq.handed * 10 = lastEq.bars

\* C3: when calculate_dissolved_volatiles returns, the fluid H2O mole fraction
\* the engine reports for the final bulk composition differs from X_fluid by
\* at most 0.0001.
C3_FluidMatchedWithinTolerance ==
    (IsDissolved /\ Returned) =>
        /\ XH2O_fluid - op.X_fluid <= 1
        /\ op.X_fluid - XH2O_fluid <= 1

\* the documented resolvable range: 0, 1, or 0.0001 .. 0.9999
XFluidDocumented(X) == X = 0 \/ X = XOne \/ (1 <= X /\ X <= 9999)

\* C4: a numeric X_fluid is accepted exactly when it is 0, 1 or lies between
\* 0.0001 and 0.9999 inclusive; every other value raises InputError before
\* any engine call.
C4_XFluidAcceptedIffDocumented ==
    IsDissolved =>
        /\ pc \in {"dv_init", "dv_loop"} => XFluidDocumented(op.X_fluid)
        /\ result.status = "InputError" =>
              ~XFluidDocumented(op.X_fluid) /\ lastEq = NoEq

\* C5: when the downward search of calculate_saturation_pressure reaches the
\* 0 MPa floor without finding fluid, the operation raises SaturationError;
\* it never returns a pressure or a result for such a sample.
C5_FloorRaisesSaturationError ==
    (op.name = "saturation_pressure" /\ pc = "done"
        /\ pressureMPa = 0 /\ fluid_mass = 0)
    => result.status = "SaturationError"

\* C6: in the table calculate_degassing_paths returns, in every mode, the
\* pressure column is strictly decreasing from the first row to the last.
C6_PressureStrictlyDecreasing ==
    (IsDegassing /\ Returned) =>
        \A i \in 1..(Len(result.value) - 1) :
            result.value[i].pressure > result.value[i + 1].pressure

C6_Witness ==
    /\ IsDegassing /\ Returned
    /\ op.system = "open"
    /\ Len(result.value) >= 2

\* C7: the degassing grid runs from the saturation pressure to the floor: its
\* first pressure equals the saturation pressure and its last is 1 bar, in
\* all three modes.
C7_GridFromSaturationToFloor ==
    (IsDegassing /\ pc \in {"dg_enrich", "dg_ramp", "dg_rows", "dg_open"}) =>
        /\ Len(P_array) >= 1
        /\ P_array[1] = data.SaturationP_bars
        /\ P_array[Len(P_array)] = GridFloor

\* C8: an open-system degassing path has one step for every pressure of its
\* grid; at a pressure without fluid a step is still emitted that carries the
\* melt H2O and CO2 forward unchanged (MagmaSat system='open', MixedFluids
\* fractionate_vapor=1).
C8_OpenPathOneStepPerPressure ==
    /\ (IsDegassing /\ Returned /\ op.system = "open") =>
          Len(result.value) = Len(P_array)
    /\ (IsMixDegassing /\ Returned /\ op.fractionate_vapor = FracOne) =>
          /\ Len(result.value[1]) = Len(op.pressures)
          /\ \A i \in 2..Len(op.pressures) :
                result.value[2][i] = <<0, 0>> =>
                    result.value[1][i] = result.value[1][i - 1]

\* C9: closed-system degassing conserves the total volatile budget: the
\* engine's bulk composition does not change between the first and the last
\* equilibration of the MagmaSat closed ramp, and with fractionate_vapor=0 the
\* H2O and CO2 of the MixedFluids system composition equal the initial
\* normalized values at every step.
C9_MixBudget ==
    (IsMixDegassing /\ op.fractionate_vapor = 0 /\ pc \in {"mx_loop", "done"}) =>
        /\ wtptoxides[volatile_species[1]] = wtm_s(1)
        /\ wtptoxides[volatile_species[2]] = wtm_s(2)

C9_ClosedBudgetConserved ==
    /\ [][(pc = "dg_ramp" /\ op.system = "closed") => bulk' = bulk]_vars
    /\ []C9_MixBudget

C9_Witness ==
    /\ IsMixDegassing /\ Returned /\ op.fractionate_vapor = 0
    /\ \E i \in 1..Len(wtm) :
          /\ Xv[i] # <<0, 0>>
          /\ wtm[i][2] < wtm_s(2)
          /\ wtm[i][2] > 0

\* C10: in the init_vapor mode the ramp is run with the composition whose
\* equilibrated fluid fraction was measured to have reached init_vapor: no
\* further increment is applied after that measurement.
C10_NoIncrementAfterTargetReached ==
    [][(pc = "dg_enrich" /\ pc' = "dg_enrich" /\ fl_wtper' > op.init_vapor)
          => bulk' = bulk]_vars

IsMixEqFluid == op.name = "mixed_equilibrium_fluid_comp"
IsEqFluid == op.name = "equilibrium_fluid_comp"
IsLawEqFluid == op.name = "law_equilibrium_fluid_comp"

\* C11: MixedFluids.calculate_equilibrium_fluid_comp returns (0,0) exactly
\* when the queried pressure exceeds the two-species saturation pressure, and
\* MagmaSat.calculate_equilibrium_fluid_comp returns 0 for both H2O and CO2
\* exactly when the engine reports a fluid mass <= 0; neither returns the
\* all-zero pair when a fluid phase is present
C11_AllZeroIffNoFluid ==
    /\ (IsMixEqFluid /\ Returned) =>
          (result.value = <<0, 0>> <=> op.pressure > satP)
    /\ (IsEqFluid /\ Returned) =>
          ((result.value.H2O = 0 /\ result.value.CO2 = 0) <=> fluid_mass <= 0)

\* the coordinator was asked above the saturation pressure and answered
C11_Witness == IsMixEqFluid /\ Returned /\ op.pressure > satP

\* two mole fractions (units of 0.0001) that sum to one
MolFracPair(X0, X1) == X0 \in 0..XOne /\ X1 \in 0..XOne /\ X0 + X1 = XOne

\* C12 as stated: every mole-fraction fluid composition returned by
\* MixedFluids.calculate_equilibrium_fluid_comp (any pressure, any sample) or
\* by MagmaSat.calculate_equilibrium_fluid_comp(mode='molfrac') has both
\* components in [0,1] and X0 + X1 = 1
C12_MoleFractionsSumToOne ==
    /\ (IsMixEqFluid /\ Returned) =>
          MolFracPair(result.value[1], result.value[2])
    /\ (IsEqFluid /\ op.mode = "molfrac" /\ Returned) =>
          MolFracPair(result.value.H2O, result.value.CO2)

\* C12 amended: the pair has both components in [0,1] and sums to 1 whenever
\* a fluid phase is present (pressure not above the saturation pressure,
\* engine fluid mass > 0); without a fluid phase it is the all-zero pair
C12_SumToOneWhenFluidPresent ==
    /\ (IsMixEqFluid /\ Returned) =>
          IF op.pressure > satP
          THEN result.value = <<0, 0>>
          ELSE MolFracPair(result.value[1], result.value[2])
    /\ (IsEqFluid /\ op.mode = "molfrac" /\ Returned) =>
          IF fluid_mass > 0
          THEN MolFracPair(result.value.H2O, result.value.CO2)
          ELSE result.value.H2O = 0 /\ result.value.CO2 = 0

\* a mixed fluid came back from the bracketed solve
C12_Witness ==
    /\ IsMixEqFluid /\ Returned /\ op.pressure <= satP
    /\ result.value[1] \in 1..(XOne - 1)

\* C13: every single-species law's calculate_equilibrium_fluid_comp returns
\* 1.0 when the fluid is saturated and 0.0 when the queried pressure exceeds
\* the law's saturation pressure, the same for all eight laws
C13_LawsAgreeOnSaturation ==
    (IsLawEqFluid /\ pc = "done") =>
        /\ result.status = "ok"
        /\ result.value = IF op.pressure > satP THEN 0 ELSE 1


IsMixDissolved == op.name = "mixed_dissolved_volatiles"

\* C14: MixedFluids.calculate_dissolved_volatiles fails with InputError,
\* without evaluating any single-species law, when X_fluid does not have
\* exactly two entries or is not a tuple, list, dict or Series; and
\* MixedFluids.calculate_equilibrium_fluid_comp fails with InputError when the
\* coordinator holds other than two volatile species
C14_MalformedFluidRaisesInputError ==
    /\ (IsMixDissolved /\ pc = "done" /\ op.n_species = 2
          /\ (op.X_len # 2 \/ op.X_type \notin {"tuple", "list", "dict"})) =>
          (result.status = "InputError" /\ evaluated = 0)
    /\ (IsMixEqFluid /\ pc = "done" /\ op.n_species # 2) =>
          result.status = "InputError"


\* C15: when an internal root-find does not converge (the KJ81 molar-volume
\* solve, the DixonWater hydroxyl-speciation solve, the IaconoMarziano inner
\* H2O solve, a single-species saturation-pressure solve, the MixedFluids
\* two-variable saturation solve) the operation surfaces a
\* NumericalConvergenceError; the last iterate is never returned as a result
C15_NonConvergenceSurfaces ==
    (pc = "done" /\ solver.called /\ ~solver.converged) =>
        result.status = "NumericalConvergenceError"


\* C16: the composition utilities (wtpercentOxides_to_molCations,
\* _to_molOxides, _to_molSingleO, _to_formulaWeight, normalize_FixedVolatiles,
\* normalize_AdditionalVolatiles) raise InputError when the composition
\* argument is of an unsupported type and never return a value then
C16_UnsupportedTypeRaises ==
    (op.name = "utility" /\ pc = "done" /\ ~Supported(op.entry, op.arg_type)) =>
        result.status = "InputError"


\* C17: for every solubility law of the registry, check_calibration_range
\* given the pressure and temperature used completes and returns, for each
\* parameter, a per-component mapping of booleans rather than one aggregate
\* value; a parameter out of range yields False, never an error
C17_CalibrationIsPerComponent ==
    (op.name = "check_calibration_range" /\ op.model \in Laws /\ pc = "done") =>
        /\ result.status = "ok"
        /\ result.value.kind = "dict"
        /\ DOMAIN result.value.v = DOMAIN op.parameters
        /\ \A k \in DOMAIN op.parameters :
             \A c \in DOMAIN result.value.v[k] : result.value.v[k][c] \in BOOLEAN


\* C18: constructing any Calculate entry point performs, in this order and
\* each exactly once: copy the caller's sample, preprocess_sample of the
\* selected model on the copy, calculate on the preprocessed sample,
\* check_calibration_range
C18_CalculateWorkflowOnce ==
    (op.name = "Calculate" /\ pc = "done") =>
        trace = <<"copy", "preprocess", "calculate", "check_calibration_range">>

\* C19: a model instance held in default_models is read-only after registry
\* initialization: after any sequence of Calculate entry points or model
\* method calls every attribute of every registry instance has the value it
\* had right after initialization
C19_RegistryReadOnly == registry = RegistryInit


\* C20: in every MagmaSat and ExcelFile operation set_bulk_composition is
\* called before each equilibrate call on the engine: before the first one
\* and between any two consecutive ones, the pressure-search loops of
\* calculate_saturation_pressure and the ramps of calculate_degassing_paths
\* included
C20_BulkSetBeforeEachEquilibrate == engine_use # "stale"

IsCalcDissolved ==
    op.name = "Calculate" /\ op.entry = "calculate_dissolved_volatiles"

\* C21: for each two-species registry model, the dissolved wt% the
\* dissolved-volatiles entry point returns for a species at the pure
\* end-member fluid (1 for that species, 0 for the other) equals what the
\* same entry point returns for the corresponding single-species registry
\* model at X_fluid = 1, for the same caller sample and pressure, each model
\* applying its own preprocess_sample
C21_EndMemberMatchesSingleLaw ==
    (/\ IsCalcDissolved /\ op.model \in MixedModels /\ pc = "done"
     /\ result.status = "ok") =>
        \A i \in 1..2 :
            op.X_pair[i] = XOne /\ op.X_pair[3 - i] = 0 =>
                result.value[i] =
                    DissolvedResult(MixedParts(op.model)[i], op.pressure,
                        Preprocess(MixedParts(op.model)[i], op.sample), XOne, <<>>)

IsLawDissolved == op.name = "law_dissolved_volatiles"

\* the CO2 laws
CarbonLaws == {"ShishkinaCarbon", "DixonCarbon", "IaconoMarzianoCarbon",
               "AllisonCarbon", "EguchiCarbon"}

\* C22: at X_fluid = 0 the fugacity is 0 for both fugacity variants, the
\* KJ81 variant returning 0 without invoking the molar-volume root solver,
\* and every CO2 law (ShishkinaCarbon, DixonCarbon, IaconoMarzianoCarbon in
\* both parameterizations, AllisonCarbon in both fits, EguchiCarbon) returns
\* a dissolved CO2 of 0 at X_fluid = 0 for any pressure and sample
C22_ZeroFluidZeroDissolved ==
    (IsLawDissolved /\ pc = "done" /\ op.X_fluid = 0) =>
        /\ Fugacity(op.law, op.pressure, op.X_fluid) = 0
        /\ UsesKJ81(op.law) => ~solver.called
        /\ op.law \in CarbonLaws => (result.status = "ok" /\ result.value.zero)

\* a KJ81 law and an ideal-gas law were evaluated at X_fluid = 0
C22_Witness ==
    /\ IsLawDissolved /\ pc = "done" /\ op.X_fluid = 0
    /\ op.law \in {"EguchiCarbon", "IaconoMarzianoCarbon"}
    /\ result.value.zero

IsLawSat == op.name = "law_saturation_pressure"
IsMixSat == op.name = "mixed_saturation_pressure"

\* C23: round trip between the inverse and the forward operation: for every
\* single-species law and every sample whose saturation-pressure solve
\* converges, calculate_dissolved_volatiles at the returned pressure (same
\* sample and X_fluid) reproduces the sample's content of the volatile, that
\* is, it is the forward value the converged residual matched to that
\* content; for MixedFluids the returned pressure reproduces both volatiles of
\* the sample at one common fluid composition
C23_RoundTrip ==
    /\ (IsLawSat /\ pc = "done" /\ solver.converged) =>
          LawWt(op.law, satP, op.sample, op.X_fluid)
              = LawWt(op.law, satP, solved.sample, solved.X_fluid)
    /\ (IsMixSat /\ pc = "done" /\ solver.converged) =>
          /\ solved.X_fluid \in 0..XOne
          /\ \A i \in 1..2 :
                solved.sample[volatile_species[i]] = op.sample[volatile_species[i]]

\* C30: a single-species calculate_saturation_pressure that accepts an
\* X_fluid argument (DixonCarbon, DixonWater, EguchiCarbon, AllisonCarbon)
\* solves for the pressure at which the forward law evaluated at that same
\* X_fluid equals the sample's volatile content: every forward evaluation of
\* the root-find uses the caller's X_fluid
C30_SaturationUsesCallerXFluid ==
    (IsLawSat /\ pc = "done"
        /\ op.law \in {"DixonCarbon", "DixonWater", "EguchiCarbon", "AllisonCarbon"})
    => solved.X_fluid = op.X_fluid

\* C24: whenever a model's calculation consumes a composition through a
\* Calculate entry point, every recognized oxide key is present in it, the
\* keys missing from the caller's sample having been filled by the preprocess
\* step; for every model of the registry
C24_AllOxideKeysPresent ==
    (op.name = "Calculate" /\ pc \in {"calc_run", "calc_check", "done"}) =>
        sample_keys = oxides

\* C25: the calculate_degassing_paths entry point completes for any model that
\* provides calculate_degassing_paths: the caller's keyword arguments are
\* forwarded to the model's method and the returned path is stored as the
\* result
C25_DegassingEntryCompletes ==
    (/\ op.name = "Calculate" /\ op.entry = "calculate_degassing_paths"
     /\ HasPathMethods(op.model) /\ pc = "done") =>
        result.status = "ok"

\* the MagmaSat operations that set the engine's bulk composition
SetsEngineBulk ==
    op.name \in {"dissolved_volatiles", "equilibrium_fluid_comp",
                 "saturation_pressure", "degassing_paths"}

\* C26: on return from each MagmaSat operation that sets the engine's bulk
\* composition, the engine's bulk composition equals the composition of the
\* sample as it was passed to that call, whatever ran before
C26_EngineBulkResetOnReturn ==
    (SetsEngineBulk /\ pc = "done" /\ result.status = "ok") => bulk = op.sample

\* C27: in the table MagmaSat.calculate_degassing_paths returns in the closed
\* modes (with or without init_vapor), every row is one consistent step: the
\* fluid_wtper of row i is the fluid fraction of the same equilibration as the
\* row's pressure and melt and fluid contents
C27_DegassingRowsConsistent ==
    (/\ op.name = "degassing_paths" /\ op.system = "closed"
     /\ pc = "done" /\ result.status = "ok") =>
        \A i \in 1..Len(result.value) :
            /\ result.value[i].pressure = output[i].p
            /\ result.value[i].H2Oliq = OrZero(output[i].xml.liqH2O)
            /\ result.value[i].fluid_wtper = FluidWtPer(output[i].xml)

IsSatSearch == op.name \in {"saturation_pressure", "excel_saturation_pressure"}

\* the engine answered the search in progress as one that reports a fluid
\* exactly at pressures not above Pstar
ThresholdEngine(Pstar) ==
    \A pr \in probes : (pr.x.fl_mass > 0) <=> (pr.P <= Pstar)

\* whole-MPa thresholds from 1 MPa to below the top of the search
Thresholds == 1..(SearchTopMPa - 1)

\* the pressure, in bars, a saturation search handed back
ReturnedBars == IF op.verbose THEN result.value.SaturationP_bars ELSE result.value

LoopPending ==
    \/ pc = "dv_init"
    \/ pc = "dv_loop" /\ NextLoop(stage, XH2O_fluid, op.X_fluid) <= 8

\* C29: the MagmaSat iterations terminate for every engine that echoes the
\* pressure: the search loops of calculate_saturation_pressure exit on a fluid
\* or at pressure <= 0, and every loop of calculate_dissolved_volatiles exits or
\* surfaces a NumericalConvergenceError once an iteration ceiling is exceeded
\* (here: after MaxIter passes a loop is no longer pending without that error)
C29_LoopsExitOrRaise ==
    (IsDissolved /\ LoopPending /\ iters >= MaxIter) =>
        result.status = "NumericalConvergenceError"

====
